---- MODULE Spec2Model ----
(***************************************************************************)
(* Model of catalyst-cooperative/epacems_ramp_rates:                       *)
(*   - _find_uptime: uptime / downtime event tables of one unit's series   *)
(*   - _make_surrogate_ids, _subcomponent_ids_from_prepped_crosswalk,      *)
(*     make_subcomponent_ids: combustor/generator graph components         *)
(*   - calc_distance_from_downtime and the exclusion flag of               *)
(*     process_subset; _create_exclusion_flags of process_partition        *)
(*   - the component timeseries, ramps and aggregates of process_subset    *)
(*   - aggregate_subcomponents and _assign_by_capacity                     *)
(*   - _filter_retirements                                                 *)
(*   - the chunk loop of main and its component_id offset                  *)
(* Timestamps are whole hours counted from the first sample of a table:    *)
(* the sample at position i of an hourly series has timestamp i - 1.       *)
(***************************************************************************)
EXTENDS Integers, Sequences, FiniteSets, TLC

VARIABLES
  pc,        \* position in the call being modelled
  ser,       \* _find_uptime: the load series
  downtime,  \* _find_uptime: the downtime argument
  events,    \* _find_uptime: the returned event table
  xwalk,     \* the crosswalk table, a sequence of rows
  prepped,   \* the crosswalk with surrogate ids (_make_surrogate_ids)
  key_map,   \* make_subcomponent_ids: the joined crosswalk it builds
  result,    \* the table with component_id, or the error raised
  cems,      \* process_subset: the unit-level table, sorted by unit and time
  tech,      \* process_subset: simple_EIA_UNIT_TYPE of the units' component
  component_of,          \* process_subset: component_id of each unit_id_epa
  component_timeseries,  \* process_subset: the component-level table
  component_aggs,        \* process_subset: the aggregate table, or the error
  meta,                  \* process_subset: aggregate_subcomponents(key_map)
  component_id_offset,  \* main: offset, passed to process_subset for the next chunk
  aggregates,  \* main: the component ids of the chunks processed so far
  outputs,     \* main: the component ids process_subset gave the current chunk
  year_range,  \* _filter_retirements: the (min_year, max_year) argument
  filtered,    \* _filter_retirements: the rows it returns
  partition    \* process_partition: its copy of the unit-level table

vars ==
  <<pc, ser, downtime, events, xwalk, prepped, key_map, result, cems, tech,
    component_of, component_timeseries, component_aggs, meta,
    component_id_offset, aggregates, outputs, year_range, filtered, partition>>

uptimeVars == <<ser, downtime, events>>
xwalkVars == <<xwalk, prepped, key_map, result>>
cemsVars == <<cems, tech>>
rampVars == <<component_of, component_timeseries, component_aggs, meta>>
chunkVars == <<component_id_offset, aggregates, outputs>>
retireVars == <<year_range, filtered>>

\* ------------------------------------------------------------------ bounds
MaxLen == 5
MaxLoad == 2
MaxRows == 3
MaxHours == 9

\* ------------------------------------------------------- missing values
\* a missing load (float NaN); loads themselves are never negative
NaN == -1
\* a missing timestamp (pd.NaT)
NaT == -1

\* ------------------------------------------------------ generic helpers
Max2(a, b) == IF a >= b THEN a ELSE b

\* the sub-sequence of s at the positions where keep[i] holds (boolean mask)
RECURSIVE MaskFrom(_, _, _)
MaskFrom(vals, keep, i) ==
  IF i > Len(vals) THEN <<>>
  ELSE (IF keep[i] THEN <<vals[i]>> ELSE <<>>) \o MaskFrom(vals, keep, i + 1)

\* the rows of a table, evaluated once
Table(f) == SubSeq(f, 1, Len(f))

\* ser.index of an hourly series: timestamps 0, 1, ..., n - 1
IndexOf(s) == [i \in 1..Len(s) |-> i - 1]

\* ================================================================ _find_uptime
\* ser.gt(0).astype(np.int8): a missing value compares False, so it is 0
Binarize(s) == [i \in 1..Len(s) |-> IF s[i] # NaN /\ s[i] > 0 THEN 1 ELSE 0]

\* diff == v at position i; Series.diff() is NaN at position 1, where no
\* comparison holds
DiffEq(b, i, v) == i > 1 /\ b[i] - b[i - 1] = v

\* diff.shift(-1) == v at position i: position i takes the value of position
\* i + 1, and the last position is NaN
ShiftedDiffEq(b, i, v) == i < Len(b) /\ DiffEq(b, i + 1, v)

\* a startups variant without the shift: the first non-zero sample
StartupsNoShift(s) ==
  MaskFrom(IndexOf(s), [i \in 1..Len(s) |-> DiffEq(Binarize(s), i, 1)], 1)

\* startups = ser.index[diff.shift(-1) == 1]: last zero value of a block
Startups(s) ==
  MaskFrom(IndexOf(s), [i \in 1..Len(s) |-> ShiftedDiffEq(Binarize(s), i, 1)], 1)

\* a shutdowns variant shifted like the startups: last non-zero sample
ShutdownsShifted(s) ==
  MaskFrom(IndexOf(s), [i \in 1..Len(s) |-> ShiftedDiffEq(Binarize(s), i, 0 - 1)], 1)

\* shutdowns = ser.index[diff == -1]: first zero value of a block
Shutdowns(s) ==
  MaskFrom(IndexOf(s), [i \in 1..Len(s) |-> DiffEq(Binarize(s), i, 0 - 1)], 1)

\* ser.iat[0] == 0 and ser.iat[-1] == 0 (False for a missing value)
generator_starts_with_zero(s) == s[1] = 0
generator_ends_with_zero(s) == s[Len(s)] = 0

\* a column handed to pd.DataFrame: a DatetimeIndex (a raw array) or a Series
\* with a RangeIndex (the result of Series.append(..., ignore_index=True))
RawCol(v) == [series |-> FALSE, vals |-> v]
SeriesCol(v) == [series |-> TRUE, vals |-> v]

Raised == [ok |-> FALSE, rows |-> <<>>]

Pad(v, n) == [k \in 1..n |-> IF k <= Len(v) THEN v[k] ELSE NaT]

\* pd.DataFrame({"shutdown": .., "startup": ..}): raw arrays must all have one
\* length, and the length of the Series' index union when there is a Series;
\* Series are aligned on the union of their indexes, padded with NaT.
\* A row is <<shutdown, startup>>.
DataFrame(shut, start) ==
  LET raws == {c \in {shut, start} : ~c.series}
      sers == {c \in {shut, start} : c.series}
      n == IF sers = {} THEN Len(shut.vals)
           ELSE Max2(IF shut.series THEN Len(shut.vals) ELSE 0,
                     IF start.series THEN Len(start.vals) ELSE 0)
  IN IF \E c \in raws : Len(c.vals) # n
     THEN Raised
     ELSE [ok |-> TRUE,
           rows |-> [k \in 1..n |-> <<Pad(shut.vals, n)[k], Pad(start.vals, n)[k]>>]]

\* the NaT accounting variant that pads both ends whatever the boundary values
EventColumnsAlwaysPad(s, dt) ==
  [shutdown |-> IF dt THEN SeriesCol(<<NaT>> \o Shutdowns(s))
                ELSE SeriesCol(Shutdowns(s) \o <<NaT>>),
   startup |-> IF dt THEN SeriesCol(Startups(s) \o <<NaT>>)
               ELSE SeriesCol(<<NaT>> \o Startups(s))]

\* the events dict of _find_uptime
EventColumns(s, dt) ==
  IF dt
  THEN [shutdown |-> IF generator_starts_with_zero(s)
                     THEN SeriesCol(<<NaT>> \o Shutdowns(s))
                     ELSE RawCol(Shutdowns(s)),
        startup |-> IF generator_ends_with_zero(s)
                    THEN SeriesCol(Startups(s) \o <<NaT>>)
                    ELSE RawCol(Startups(s))]
  ELSE [startup |-> IF generator_starts_with_zero(s)
                    THEN RawCol(Startups(s))
                    ELSE SeriesCol(<<NaT>> \o Startups(s)),
        shutdown |-> IF generator_ends_with_zero(s)
                     THEN RawCol(Shutdowns(s))
                     ELSE SeriesCol(Shutdowns(s) \o <<NaT>>)]

\* _find_uptime(ser, downtime=dt) for a series with a plain datetime index
find_uptime(s, dt) ==
  LET ev == EventColumns(s, dt)
  IN DataFrame(ev.shutdown, ev.startup)

\* ---------------------------------------------------------- specification
Loads == (0..MaxLoad) \cup {NaN}

SeriesOfLen(n) == [1..n -> Loads]

NoEvents == [ok |-> TRUE, rows |-> <<>>]

NoResult == [ok |-> FALSE, rows |-> {}]

\* process_subset's component tables before it builds them
NoAggs == [ok |-> FALSE, rows |-> <<>>]

RampsIdle ==
  /\ component_of = <<>> /\ component_timeseries = <<>>
  /\ component_aggs = NoAggs /\ meta = NoAggs

\* main's chunk loop before it starts
ChunksIdle == component_id_offset = 0 /\ aggregates = <<>> /\ outputs = {}

\* _filter_retirements and process_partition before they are called
OthersIdle == year_range = <<0, 0>> /\ filtered = <<>> /\ partition = <<>>

InitUptime ==
  /\ pc = "start"
  /\ \E n \in 1..MaxLen : ser \in SeriesOfLen(n)
  /\ downtime \in BOOLEAN
  /\ events = NoEvents
  /\ xwalk = <<>> /\ prepped = <<>> /\ key_map = <<>> /\ result = NoResult
  /\ cems = <<>> /\ tech = "nan"
  /\ RampsIdle /\ ChunksIdle /\ OthersIdle

FindUptime ==
  /\ pc = "start"
  /\ events' = find_uptime(ser, downtime)
  /\ pc' = "done"
  /\ UNCHANGED <<ser, downtime>>
  /\ UNCHANGED xwalkVars
  /\ UNCHANGED cemsVars
  /\ UNCHANGED rampVars
  /\ UNCHANGED chunkVars
  /\ UNCHANGED retireVars
  /\ UNCHANGED partition

NextUptime == FindUptime

SpecUptime == InitUptime /\ [][NextUptime]_vars

\* ------------------------------------------------- claims on _find_uptime
NoMissing(s) == \A i \in 1..Len(s) : s[i] # NaN

\* position i lies in a run of zero samples (zero = TRUE) or of non-zero
\* samples (zero = FALSE)
InRun(s, i, zero) == (s[i] = 0) = zero

\* first positions of the maximal runs
RunStarts(s, zero) ==
  {i \in 1..Len(s) : InRun(s, i, zero) /\ (i = 1 \/ ~InRun(s, i - 1, zero))}

\* last position of the maximal run that starts at i
RunEnd(s, i, zero) ==
  CHOOSE j \in i..Len(s) :
    /\ \A k \in i..j : InRun(s, k, zero)
    /\ (j = Len(s) \/ ~InRun(s, j + 1, zero))

\* the k-th smallest element of a set of positions
Kth(S, k) == CHOOSE i \in S : Cardinality({j \in S : j < i}) = k - 1

\* timestamp of position i, or NaT when the position is outside the series
TsOrNaT(s, i) == IF i < 1 \/ i > Len(s) THEN NaT ELSE i - 1

\* C1: downtime mode on a non-missing series: one row per maximal run of
\* zeros, in order; shutdown is the timestamp of the run's first zero (NaT
\* iff the run contains the first sample), startup the timestamp of the
\* run's last zero (NaT iff the run contains the last sample).
C1_DowntimeRowsAreZeroRuns ==
  (pc = "done" /\ downtime /\ NoMissing(ser)) =>
    LET S == RunStarts(ser, TRUE)
    IN /\ events.ok
       /\ Len(events.rows) = Cardinality(S)
       /\ \A k \in 1..Len(events.rows) :
            LET i == Kth(S, k)
                j == RunEnd(ser, i, TRUE)
            IN /\ events.rows[k][1] = (IF i = 1 THEN NaT ELSE i - 1)
               /\ events.rows[k][2] = (IF j = Len(ser) THEN NaT ELSE j - 1)

C1_Witness ==
  /\ pc = "done" /\ downtime /\ NoMissing(ser)
  /\ Len(events.rows) = 2
  /\ events.rows[1] = <<NaT, 0>>
  /\ events.rows[2][1] # NaT /\ events.rows[2][2] > events.rows[2][1]

\* C2: uptime mode on a non-missing series: one row per maximal run of
\* non-zero samples, in order; startup is the timestamp of the zero sample
\* just before the run (NaT iff the run contains the first sample), shutdown
\* the timestamp of the zero sample just after it (NaT iff the run contains
\* the last sample).
C2_UptimeRowsAreNonZeroRuns ==
  (pc = "done" /\ ~downtime /\ NoMissing(ser)) =>
    LET S == RunStarts(ser, FALSE)
    IN /\ events.ok
       /\ Len(events.rows) = Cardinality(S)
       /\ \A k \in 1..Len(events.rows) :
            LET i == Kth(S, k)
                j == RunEnd(ser, i, FALSE)
            IN /\ events.rows[k][2] = TsOrNaT(ser, i - 1)
               /\ events.rows[k][1] = TsOrNaT(ser, j + 1)

C2_Witness ==
  /\ pc = "done" /\ ~downtime /\ NoMissing(ser)
  /\ Len(events.rows) = 3
  /\ events.rows[1][2] = NaT /\ events.rows[1][1] # NaT
  /\ events.rows[2][2] # NaT /\ events.rows[2][1] # NaT
  /\ events.rows[3][1] = NaT

\* C3: an all-zero series gives one downtime event with both endpoints
\* missing and no uptime event; an all-non-zero series gives no downtime
\* event and one uptime event with both endpoints missing.
C3_ConstantSeries ==
  LET allZero == \A i \in 1..Len(ser) : ser[i] = 0
      allOn == \A i \in 1..Len(ser) : ser[i] # NaN /\ ser[i] > 0
  IN (pc = "done" /\ (allZero \/ allOn)) =>
       /\ events.ok
       /\ events.rows = IF allZero = downtime THEN << <<NaT, NaT>> >> ELSE <<>>

C3_Witness ==
  /\ pc = "done" /\ Len(ser) >= 3
  /\ \A i \in 1..Len(ser) : ser[i] = 0
  /\ downtime
  /\ events.rows = << <<NaT, NaT>> >>

\* C4: in every returned event table a row with both endpoints known ends no
\* earlier than it starts: startup >= shutdown in downtime mode, shutdown >=
\* startup in uptime mode.
C4_EndNotBeforeStart ==
  (pc = "done" /\ events.ok) =>
    \A k \in 1..Len(events.rows) :
      LET shut == events.rows[k][1]
          start == events.rows[k][2]
      IN (shut # NaT /\ start # NaT) =>
           IF downtime THEN start >= shut ELSE shut >= start

\* C5: a series whose first or last load is missing is rejected: no event
\* table is returned for it.
C5_MissingBoundaryRejected ==
  (pc = "done" /\ (ser[1] = NaN \/ ser[Len(ser)] = NaN)) => ~events.ok

\* ============================================================ crosswalk graph
\* a missing key field of a crosswalk row
NA == 0
\* NaN in a surrogate id column
NaNId == -2

\* key values of the crosswalks explored
PlantIds == {1, 2}
UnitIds == {1, 2}
GeneratorIds == {1, 2}

\* A crosswalk row: its three key fields, and "row", which stands for the
\* row's other columns (capacities, fuel and unit types, ...) and is the
\* row's position in the input table, so that no two rows are equal.
CrosswalkKeys ==
  [CAMD_PLANT_ID : PlantIds, CAMD_UNIT_ID : UnitIds \cup {NA},
   EIA_GENERATOR_ID : GeneratorIds \cup {NA}]

\* the crosswalk with the given key fields
Crosswalk(keys) == [i \in 1..Len(keys) |-> keys[i] @@ [row |-> i]]

\* the crosswalks explored list their plants in order
PlantsInOrder(keys) ==
  \A i, j \in 1..Len(keys) : i < j => keys[i].CAMD_PLANT_ID <= keys[j].CAMD_PLANT_ID

CamdKey(r) == <<r.CAMD_PLANT_ID, r.CAMD_UNIT_ID>>

\* a variant of the generator key that leaves the plant out
EiaKeyWithoutPlant(r) == <<1, r.EIA_GENERATOR_ID>>

\* groupby(by=["CAMD_PLANT_ID", "EIA_GENERATOR_ID"])
EiaKey(r) == <<r.CAMD_PLANT_ID, r.EIA_GENERATOR_ID>>

KeyHasNA(k) == k[1] = NA \/ k[2] = NA

\* sort order of the group keys
KeyBefore(a, b) == a[1] < b[1] \/ (a[1] = b[1] /\ a[2] < b[2])

\* groupby(by=[..]).ngroup() at row i, keys being the rows' group keys: the
\* rank of the row's key among the sorted distinct keys. groupby drops keys
\* with a missing field (dropna); such a row is numbered -1 (pandas before 1.5) or NaN (pandas 1.5).
ngroup(keys, i, naIsNaN) ==
  IF KeyHasNA(keys[i])
  THEN (IF naIsNaN THEN NaNId ELSE 0 - 1)
  ELSE Cardinality({k \in {keys[j] : j \in 1..Len(keys)} :
                      ~KeyHasNA(k) /\ KeyBefore(k, keys[i])})

\* Series.max(): NaN is skipped; NaN when nothing is left
ColMax(col) ==
  LET known == {col[i] : i \in 1..Len(col)} \ {NaNId}
  IN IF known = {} THEN NaNId
     ELSE CHOOSE m \in known : \A v \in known : v <= m

\* addition of id columns: NaN propagates
AddId(a, b) == IF a = NaNId \/ b = NaNId THEN NaNId ELSE a + b

\* _make_surrogate_ids
make_surrogate_ids(tbl, naIsNaN) ==
  LET camd == Table([i \in 1..Len(tbl) |-> CamdKey(tbl[i])])
      eia == Table([i \in 1..Len(tbl) |-> EiaKey(tbl[i])])
      comb == Table([i \in 1..Len(tbl) |-> ngroup(camd, i, naIsNaN)])
  IN Table([i \in 1..Len(tbl) |->
              tbl[i] @@ [combustor_id |-> comb[i],
                         generator_id |->
                           AddId(AddId(ngroup(eia, i, naIsNaN), ColMax(comb)), 1)]])

\* ---- nx.from_pandas_edgelist(prepped, "combustor_id", "generator_id")
\* A node is <<0, id>>. Each NaN read from an id column is a float object of
\* its own, equal to no other, so it is a node of its own: <<row, side>>.
SourceNode(p, i) ==
  IF p[i].combustor_id = NaNId THEN <<i, 1>> ELSE <<0, p[i].combustor_id>>

TargetNode(p, i) ==
  IF p[i].generator_id = NaNId THEN <<i, 2>> ELSE <<0, p[i].generator_id>>

EdgeOf(p, i) == {SourceNode(p, i), TargetNode(p, i)}

InSeq(s, x) == \E k \in 1..Len(s) : s[k] = x

AppendNew(s, x) == IF InSeq(s, x) THEN s ELSE Append(s, x)

\* the nodes in the order add_edge inserts them
RECURSIVE NodeOrder(_, _, _)
NodeOrder(p, i, acc) ==
  IF i > Len(p) THEN acc
  ELSE NodeOrder(p, i + 1,
                 AppendNew(AppendNew(acc, SourceNode(p, i)), TargetNode(p, i)))

Neighbors(p, v) ==
  UNION {EdgeOf(p, i) : i \in {j \in 1..Len(p) : v \in EdgeOf(p, j)}}

\* _plain_bfs: the nodes reachable from the nodes seen
RECURSIVE PlainBfs(_, _)
PlainBfs(p, seen) ==
  LET next == seen \cup UNION {Neighbors(p, v) : v \in seen}
  IN IF next = seen THEN seen ELSE PlainBfs(p, next)

\* nx.connected_components(graph): one node set per component, in the order
\* of each component's first node
RECURSIVE ConnectedComponents(_, _, _, _, _)
ConnectedComponents(p, order, k, seen, acc) ==
  IF k > Len(order) THEN acc
  ELSE IF order[k] \in seen
       THEN ConnectedComponents(p, order, k + 1, seen, acc)
       ELSE LET c == PlainBfs(p, {order[k]})
            IN ConnectedComponents(p, order, k + 1, seen \cup c, Append(acc, c))

connected_components(p) ==
  ConnectedComponents(p, NodeOrder(p, 1, <<>>), 1, {}, <<>>)

\* nx.algorithms.bipartite.is_bipartite(graph.subgraph(node_set)): the
\* subgraph has a two-colouring (a self-loop has none)
is_bipartite(p, node_set) ==
  \E colour \in [node_set -> {0, 1}] :
    \A i \in 1..Len(p) :
      SourceNode(p, i) \in node_set =>
        colour[SourceNode(p, i)] # colour[TargetNode(p, i)]

\* a variant that sets the attribute on every edge of the graph at each
\* turn of the loop, so the last component's number wins everywhere
component_id_whole_graph(comps, v) == Len(comps) - 1

\* the i of enumerate(...) whose node_set holds node v
component_id_of(comps, v) ==
  (CHOOSE k \in 1..Len(comps) : v \in comps[k]) - 1

Pos(s, x) == CHOOSE k \in 1..Len(s) : s[k] = x

AssertionError == [ok |-> FALSE, rows |-> {}]

\* the columns of a row other than the two surrogate id columns
EdgeAttrs(r) == [f \in (DOMAIN r) \ {"combustor_id", "generator_id"} |-> r[f]]

\* _subcomponent_ids_from_prepped_crosswalk: the graph holds one edge per
\* pair of linked nodes, whose attributes are those of the last row that set
\* them; nx.to_pandas_edgelist gives one row per edge, its source the
\* endpoint the node order reaches first. The order of the returned rows is
\* not modelled: they are a set.
subcomponent_ids_from_prepped_crosswalk(p) ==
  LET comps == connected_components(p)
      order == NodeOrder(p, 1, <<>>)
      last(e) == CHOOSE i \in 1..Len(p) :
                   EdgeOf(p, i) = e /\ \A j \in 1..Len(p) : EdgeOf(p, j) = e => j <= i
      src(e) == CHOOSE u \in e : \A v \in e : Pos(order, u) <= Pos(order, v)
  IN IF \E k \in 1..Len(comps) : ~is_bipartite(p, comps[k])
     THEN AssertionError
     ELSE [ok |-> TRUE,
           rows |-> {EdgeAttrs(p[last(e)]) @@
                       [source |-> src(e),
                        target |-> IF e = {src(e)} THEN src(e)
                                   ELSE CHOOSE v \in e : v # src(e),
                        component_id |-> component_id_of(comps, src(e))] :
                     e \in {EdgeOf(p, i) : i \in 1..Len(p)}}]

\* ---- make_subcomponent_ids(xwalk, cems)
\* the (plant_id_eia, unitid) of the units of cems, in unit_id_epa order
CemsUnits == {<< <<1, 1>>, <<1, 2>>, <<2, 1>>, <<2, 2>> >>, << <<1, 1>>, <<1, 2>> >>}

RECURSIVE RowsWithKey(_, _, _, _)
RowsWithKey(xw, units, u, i) ==
  IF i > Len(xw) THEN <<>>
  ELSE (IF CamdKey(xw[i]) = units[u]
        THEN << [plant_id_eia |-> units[u][1], unitid |-> units[u][2],
                 unit_id_epa |-> u] @@ xw[i] >>
        ELSE <<>>) \o RowsWithKey(xw, units, u, i + 1)

\* key_map.merge(xwalk, left_on=[plant_id_eia, unitid],
\*               right_on=[CAMD_PLANT_ID, CAMD_UNIT_ID], how="inner"):
\* the order of the left keys is kept
RECURSIVE MergeInner(_, _, _)
MergeInner(units, xw, u) ==
  IF u > Len(units) THEN <<>>
  ELSE RowsWithKey(xw, units, u, 1) \o MergeInner(units, xw, u + 1)

KeyError == [ok |-> FALSE, rows |-> {}]

\* filtered[["component_id"] + column_order]: the source and target columns
\* are dropped; an edge list without edges has no other column
SelectColumns(res, joined) ==
  IF ~res.ok THEN res
  ELSE IF Len(joined) = 0 THEN KeyError
  ELSE [ok |-> TRUE,
        rows |-> {[f \in (DOMAIN r) \ {"source", "target"} |-> r[f]] : r \in res.rows}]

make_subcomponent_ids(xw, units, naIsNaN) ==
  LET joined == MergeInner(units, xw, 1)
  IN SelectColumns(
       subcomponent_ids_from_prepped_crosswalk(make_surrogate_ids(joined, naIsNaN)),
       joined)

\* ---------------------------------------------------------- specification
InitXwalk ==
  /\ pc = "start"
  /\ \E n \in 1..MaxRows : \E keys \in [1..n -> CrosswalkKeys] :
       PlantsInOrder(keys) /\ xwalk = Crosswalk(keys)
  /\ prepped = <<>> /\ key_map = <<>> /\ result = NoResult
  /\ ser = <<0>> /\ downtime = FALSE /\ events = NoEvents
  /\ cems = <<>> /\ tech = "nan"
  /\ RampsIdle /\ ChunksIdle /\ OthersIdle

MakeSurrogateIds ==
  /\ pc = "start"
  /\ \E naIsNaN \in BOOLEAN : prepped' = make_surrogate_ids(xwalk, naIsNaN)
  /\ pc' = "prepped"
  /\ UNCHANGED <<xwalk, key_map, result>>
  /\ UNCHANGED uptimeVars
  /\ UNCHANGED cemsVars
  /\ UNCHANGED rampVars
  /\ UNCHANGED chunkVars
  /\ UNCHANGED retireVars
  /\ UNCHANGED partition

SubcomponentIds ==
  /\ pc = "prepped"
  /\ result' = subcomponent_ids_from_prepped_crosswalk(prepped)
  /\ pc' = "components"
  /\ UNCHANGED <<xwalk, key_map, prepped>>
  /\ UNCHANGED uptimeVars
  /\ UNCHANGED cemsVars
  /\ UNCHANGED rampVars
  /\ UNCHANGED chunkVars
  /\ UNCHANGED retireVars
  /\ UNCHANGED partition

MakeSubcomponentIds ==
  /\ pc = "start"
  /\ \E units \in CemsUnits, naIsNaN \in BOOLEAN :
       /\ key_map' = MergeInner(units, xwalk, 1)
       /\ prepped' = make_surrogate_ids(key_map', naIsNaN)
       /\ result' = make_subcomponent_ids(xwalk, units, naIsNaN)
  /\ pc' = "made"
  /\ UNCHANGED xwalk
  /\ UNCHANGED uptimeVars
  /\ UNCHANGED cemsVars
  /\ UNCHANGED rampVars
  /\ UNCHANGED chunkVars
  /\ UNCHANGED retireVars
  /\ UNCHANGED partition

NextXwalk == MakeSurrogateIds \/ SubcomponentIds \/ MakeSubcomponentIds

SpecXwalk == InitXwalk /\ [][NextXwalk]_vars

\* ---------------------------------------------- claims on the crosswalk graph
\* rows i and j share a surrogate id
RowsTouch(p, i, j) == EdgeOf(p, i) \cap EdgeOf(p, j) # {}

\* the rows linked to the rows of S by a chain of rows
RECURSIVE LinkedRows(_, _)
LinkedRows(p, S) ==
  LET next == S \cup {j \in 1..Len(p) : \E i \in S : RowsTouch(p, i, j)}
  IN IF next = S THEN S ELSE LinkedRows(p, next)

\* the component_id a prepped row receives: that of its edge
ComponentOfRow(i) ==
  (CHOOSE r \in result.rows : {r.source, r.target} = EdgeOf(prepped, i)).component_id

\* C6: the component_id assignment is a partition by connectivity: two rows
\* have the same component_id iff a chain of rows links their surrogate ids,
\* and every surrogate id belongs to exactly one component.
C6_ComponentsPartitionByConnectivity ==
  (pc = "components" /\ result.ok) =>
    /\ \A i \in 1..Len(prepped) :
         \E r \in result.rows : {r.source, r.target} = EdgeOf(prepped, i)
    /\ \A i, j \in 1..Len(prepped) :
         (ComponentOfRow(i) = ComponentOfRow(j)) <=> (j \in LinkedRows(prepped, {i}))
    /\ \A i \in 1..Len(prepped) : \A v \in EdgeOf(prepped, i) :
         Cardinality({r.component_id : r \in {q \in result.rows : v \in {q.source, q.target}}}) = 1

C6_Witness ==
  /\ pc = "components" /\ result.ok
  /\ \A i \in 1..Len(prepped) :
       ~KeyHasNA(CamdKey(prepped[i])) /\ ~KeyHasNA(EiaKey(prepped[i]))
  /\ Cardinality(result.rows) = 3
  /\ {r.component_id : r \in result.rows} = {0, 1}

\* C7: after _make_surrogate_ids (key fields may be missing) no edge joins two
\* combustor-side ids or two generator-side ids, and the bipartiteness
\* assertion of _subcomponent_ids_from_prepped_crosswalk is never triggered.
C7_NoSameSideEdgeNoAssertion ==
  (pc = "components") =>
    /\ result.ok
    /\ {SourceNode(prepped, i) : i \in 1..Len(prepped)}
         \cap {TargetNode(prepped, i) : i \in 1..Len(prepped)} = {}

\* C8: rows get the same combustor_id iff they share (plant, combustor unit),
\* the same generator_id iff they share (plant, generator unit), and no
\* generator_id equals a combustor_id (key fields may be missing).
C8_SurrogateIdsFollowKeys ==
  (pc = "prepped") =>
    \A i, j \in 1..Len(prepped) :
      /\ (SourceNode(prepped, i) = SourceNode(prepped, j))
           <=> (CamdKey(prepped[i]) = CamdKey(prepped[j]))
      /\ (TargetNode(prepped, i) = TargetNode(prepped, j))
           <=> (EiaKey(prepped[i]) = EiaKey(prepped[j]))
      /\ TargetNode(prepped, i) # SourceNode(prepped, j)

\* C9: make_subcomponent_ids returns exactly one row for every row of the
\* joined crosswalk it builds: the same rows, with component_id added.
C9_OneOutputRowPerJoinedRow ==
  (pc = "made" /\ result.ok) =>
    /\ Cardinality(result.rows) = Len(key_map)
    /\ {[f \in (DOMAIN r) \ {"component_id"} |-> r[f]] : r \in result.rows}
         = {key_map[i] : i \in 1..Len(key_map)}

\* ===================================== distance from downtime, exclusion flags
\* default of _distance_from_downtime's boundary_offset_hours
boundary_offset_hours == 24

\* size of exclusion zone around startup/shutdown: -1 is no exclusions
EXCLUSION_SIZE_HOURS ==
  [steam_turbine |-> 5, combined_cycle |-> 7,
   gas_turbine |-> 0 - 1, internal_combustion |-> 0 - 1]

Min2(a, b) == IF a <= b THEN a ELSE b

Col(tbl, f) == [i \in 1..Len(tbl) |-> tbl[i][f]]

\* a variant of _find_edges that diffs along the whole table
find_edges_across_units(tbl) ==
  LET b == Binarize(Col(tbl, "gross_load_mw"))
  IN [i \in 1..Len(tbl) |->
        tbl[i] @@
          [shutdowns |-> IF DiffEq(b, i, 0 - 1)
                         THEN tbl[i].operating_datetime_utc ELSE NaT,
           startups |-> IF DiffEq(b, i, 1)
                        THEN tbl[i].operating_datetime_utc ELSE NaT]]

\* _find_edges: the startups and shutdowns columns. binary_diffs is the diff
\* of the binarized load along the whole table, kept only where the diff of
\* unit_id_epa is 0.
find_edges(tbl) ==
  LET b == Binarize(Col(tbl, "gross_load_mw"))
      u == Col(tbl, "unit_id_epa")
      binary_diffs_eq(i, v) == DiffEq(b, i, v) /\ DiffEq(u, i, 0)
  IN [i \in 1..Len(tbl) |->
        tbl[i] @@
          [shutdowns |-> IF binary_diffs_eq(i, 0 - 1)
                         THEN tbl[i].operating_datetime_utc ELSE NaT,
           startups |-> IF binary_diffs_eq(i, 1)
                        THEN tbl[i].operating_datetime_utc ELSE NaT]]

\* the rows of the unit of row i (groupby(level="unit_id_epa"))
UnitRows(tbl, i) == {j \in 1..Len(tbl) : tbl[j].unit_id_epa = tbl[i].unit_id_epa}

SetMax(S) == CHOOSE m \in S : \A x \in S : x <= m
SetMin(S) == CHOOSE m \in S : \A x \in S : m <= x

\* a variant that fills with the first timestamp itself, without the offset
FillForwardToEdge(tbl, i, f, offset) ==
  LET known == {j \in UnitRows(tbl, i) : j <= i /\ tbl[j][f] # NaT}
  IN IF known # {} THEN tbl[SetMax(known)][f]
     ELSE tbl[SetMin(UnitRows(tbl, i))].operating_datetime_utc

\* x.ffill().fillna(x.index[0][1] - offset) within the unit of row i
FillForward(tbl, i, f, offset) ==
  LET known == {j \in UnitRows(tbl, i) : j <= i /\ tbl[j][f] # NaT}
  IN IF known # {} THEN tbl[SetMax(known)][f]
     ELSE tbl[SetMin(UnitRows(tbl, i))].operating_datetime_utc - offset

\* x.bfill().fillna(x.index[-1][1] + offset) within the unit of row i
FillBackward(tbl, i, f, offset) ==
  LET known == {j \in UnitRows(tbl, i) : j >= i /\ tbl[j][f] # NaT}
  IN IF known # {} THEN tbl[SetMin(known)][f]
     ELSE tbl[SetMax(UnitRows(tbl, i))].operating_datetime_utc + offset

\* _distance_from_downtime: hours from the last startup, to the next shutdown
distance_from_downtime(tbl, offset) ==
  [i \in 1..Len(tbl) |->
     LET start == FillForward(tbl, i, "startups", offset)
         shut == FillBackward(tbl, i, "shutdowns", offset)
     IN [tbl[i] EXCEPT !.startups = start, !.shutdowns = shut] @@
          [hours_from_startup |-> tbl[i].operating_datetime_utc - start,
           hours_to_shutdown |-> shut - tbl[i].operating_datetime_utc]]

\* calc_distance_from_downtime, its last step: the hours_distance column
hours_distance(tbl) ==
  [i \in 1..Len(tbl) |->
     tbl[i] @@ [hours_distance |->
                  Min2(tbl[i].hours_from_startup, tbl[i].hours_to_shutdown)]]

\* a variant of the comparison that leaves the radius itself out
exclude_ramp_strict(distance, label) ==
  /\ label \in DOMAIN EXCLUSION_SIZE_HOURS
  /\ distance < EXCLUSION_SIZE_HOURS[label]

\* hours_distance <= simple_EIA_UNIT_TYPE.map(EXCLUSION_SIZE_HOURS): a label
\* that is missing maps to NaN, and the comparison is False
exclude_ramp(distance, label) ==
  /\ label \in DOMAIN EXCLUSION_SIZE_HOURS
  /\ distance <= EXCLUSION_SIZE_HOURS[label]

\* ---------------------------------------------------------- specification
CemsLoads == {0, 1}

\* the hourly rows of one unit, from hour 0
UnitTable(unit, s) ==
  [i \in 1..Len(s) |->
     [unit_id_epa |-> unit, operating_datetime_utc |-> i - 1, gross_load_mw |-> s[i]]]

\* the tables of the one or two units of a component, at most MaxHours rows
CemsTables ==
  UNION {UNION {{UnitTable(1, s1) \o UnitTable(2, s2) :
                   s1 \in [1..n1 -> CemsLoads], s2 \in [1..n2 -> CemsLoads]} :
                n2 \in 0..(MaxHours - n1)} :
         n1 \in 1..MaxHours}

InitExclusion ==
  /\ pc = "start"
  /\ cems \in CemsTables
  /\ tech \in (DOMAIN EXCLUSION_SIZE_HOURS) \cup {"nan"}
  /\ ser = <<0>> /\ downtime = FALSE /\ events = NoEvents
  /\ xwalk = <<>> /\ prepped = <<>> /\ key_map = <<>> /\ result = NoResult
  /\ RampsIdle /\ ChunksIdle /\ OthersIdle

\* process_subset, cli.py line 45: calc_distance_from_downtime(cems) works in
\* place, in three steps
FindEdges ==
  /\ pc = "start"
  /\ cems' = find_edges(cems)
  /\ pc' = "edges"
  /\ UNCHANGED tech
  /\ UNCHANGED uptimeVars
  /\ UNCHANGED xwalkVars
  /\ UNCHANGED rampVars
  /\ UNCHANGED chunkVars
  /\ UNCHANGED retireVars
  /\ UNCHANGED partition

DistanceFromDowntime ==
  /\ pc = "edges"
  /\ cems' = distance_from_downtime(cems, boundary_offset_hours)
  /\ pc' = "filled"
  /\ UNCHANGED tech
  /\ UNCHANGED uptimeVars
  /\ UNCHANGED xwalkVars
  /\ UNCHANGED rampVars
  /\ UNCHANGED chunkVars
  /\ UNCHANGED retireVars
  /\ UNCHANGED partition

HoursDistance ==
  /\ pc = "filled"
  /\ cems' = hours_distance(cems)
  /\ pc' = "distances"
  /\ UNCHANGED tech
  /\ UNCHANGED uptimeVars
  /\ UNCHANGED xwalkVars
  /\ UNCHANGED rampVars
  /\ UNCHANGED chunkVars
  /\ UNCHANGED retireVars
  /\ UNCHANGED partition

\* process_subset, cli.py lines 64-70: the component's label joins the unit
\* rows, then the flag
FlagExclusions ==
  /\ pc = "distances"
  /\ cems' = [i \in 1..Len(cems) |->
                cems[i] @@ [simple_EIA_UNIT_TYPE |-> tech,
                            exclude_ramp |-> exclude_ramp(cems[i].hours_distance, tech)]]
  /\ pc' = "flagged"
  /\ UNCHANGED tech
  /\ UNCHANGED uptimeVars
  /\ UNCHANGED xwalkVars
  /\ UNCHANGED rampVars
  /\ UNCHANGED chunkVars
  /\ UNCHANGED retireVars
  /\ UNCHANGED partition

NextExclusion == FindEdges \/ DistanceFromDowntime \/ HoursDistance \/ FlagExclusions

SpecExclusion == InitExclusion /\ [][NextExclusion]_vars

\* ------------------------------------------- claims on the exclusion flags
\* C10: a unit sample is flagged exclude_ramp iff its hours_distance (the
\* minimum of hours_from_startup and hours_to_shutdown) is <= 5 and its
\* component is steam_turbine, or <= 7 and combined_cycle; gas_turbine and
\* internal_combustion samples are never flagged.
C10_ExcludeWithinRadius ==
  (pc = "flagged") =>
    \A i \in 1..Len(cems) :
      LET r == cems[i]
      IN /\ r.hours_distance = Min2(r.hours_from_startup, r.hours_to_shutdown)
         /\ r.exclude_ramp <=>
              \/ (r.simple_EIA_UNIT_TYPE = "steam_turbine" /\ r.hours_distance <= 5)
              \/ (r.simple_EIA_UNIT_TYPE = "combined_cycle" /\ r.hours_distance <= 7)
         /\ r.simple_EIA_UNIT_TYPE \in {"gas_turbine", "internal_combustion"}
              => ~r.exclude_ramp

C10_Witness ==
  /\ pc = "flagged" /\ tech = "combined_cycle"
  /\ \E i, j, k \in 1..Len(cems) :
       /\ cems[i].hours_distance = 7 /\ cems[i].exclude_ramp
       /\ cems[j].hours_distance = 8 /\ ~cems[j].exclude_ramp
       /\ cems[k].hours_distance = 0 /\ cems[k].exclude_ramp

\* ============================================ component timeseries and ramps
MaxTimes == 3

\* a missing value (NaN) of a numeric column, and a known one
Missing == <<>>
Known(v) == <<v>>

Abs(x) == IF x < 0 THEN 0 - x ELSE x

\* the component ids of the table: key_map's component_id of each unit
Components(tbl, comp) == {comp[tbl[i].unit_id_epa] : i \in 1..Len(tbl)}

\* groupby(["component_id", "operating_datetime_utc"]): the group keys
GroupKeys(tbl, comp) ==
  {<<comp[tbl[i].unit_id_epa], tbl[i].operating_datetime_utc>> : i \in 1..Len(tbl)}

\* groupby sorts its keys
SortedKeys(K) ==
  [n \in 1..Cardinality(K) |->
     CHOOSE k \in K : Cardinality({j \in K : KeyBefore(j, k)}) = n - 1]

\* the unit rows of one group
GroupRows(tbl, comp, k) ==
  {i \in 1..Len(tbl) :
     comp[tbl[i].unit_id_epa] = k[1] /\ tbl[i].operating_datetime_utc = k[2]}

\* .sum() of a column over the rows of a group
RECURSIVE SumCol(_, _, _)
SumCol(tbl, rows, col) ==
  IF rows = {} THEN 0
  ELSE LET i == CHOOSE r \in rows : TRUE
       IN tbl[i][col] + SumCol(tbl, rows \ {i}, col)

\* a variant that asks every unit of the group to be flagged
all_excluded(tbl, rows) ==
  Cardinality({i \in rows : tbl[i].exclude_ramp}) = Cardinality(rows)

\* exclude_ramp.sum() > 0: sum() > 0 is like logical 'or'
any_excluded(tbl, rows) ==
  Cardinality({i \in rows : tbl[i].exclude_ramp}) > 0

\* process_subset, cli.py lines 72-79: component_timeseries
sum_by_component(tbl, comp) ==
  LET keys == SortedKeys(GroupKeys(tbl, comp))
  IN [n \in 1..Len(keys) |->
        [component_id |-> keys[n][1],
         operating_datetime_utc |-> keys[n][2],
         gross_load_mw |-> SumCol(tbl, GroupRows(tbl, comp, keys[n]), "gross_load_mw"),
         exclude_ramp |-> any_excluded(tbl, GroupRows(tbl, comp, keys[n]))]]

\* a variant that diffs along the whole table, across components
component_ramp_across(ts) ==
  [n \in 1..Len(ts) |->
     ts[n] @@
       [ramp |-> IF n > 1
                 THEN Known(ts[n].gross_load_mw - ts[n - 1].gross_load_mw)
                 ELSE Missing]]

\* lines 96-98: groupby("component_id")[["gross_load_mw"]].diff(), missing at
\* the first row of every component
component_ramp(ts) ==
  [n \in 1..Len(ts) |->
     ts[n] @@
       [ramp |-> IF n > 1 /\ ts[n - 1].component_id = ts[n].component_id
                 THEN Known(ts[n].gross_load_mw - ts[n - 1].gross_load_mw)
                 ELSE Missing]]

\* a variant of the row filter that keeps the excluded rows too
KeptAll(ts, c) == {n \in 1..Len(ts) : ts[n].component_id = c}

\* line 100: the rows of component c in
\* component_timeseries.loc[~component_timeseries["exclude_ramp"], ["ramp"]]
Kept(ts, c) == {n \in 1..Len(ts) : ts[n].component_id = c /\ ~ts[n].exclude_ramp}

\* the rows of S whose ramp is not missing: max, min, idxmax, idxmin skip NaN
Defined(ts, S) == {n \in S : ts[n].ramp # Missing}

\* x.idxmax() of a group without a known ramp is NaN, and NaN[1] raises
\* TypeError: 'float' object is not subscriptable
TypeError == [ok |-> FALSE, rows |-> <<>>]

idxmax_raises(ts) ==
  \E c \in {ts[n].component_id : n \in 1..Len(ts)} :
    Kept(ts, c) # {} /\ Defined(ts, Kept(ts, c)) = {}

\* a variant of the comparison that forgets the absolute value
max_ge_min(mx, mn) == mx >= mn

\* a variant of the comparison in which ties go to idxmin
max_gt_abs_min(mx, mn) == mx > Abs(mn)

\* line 110: condition = max >= min.abs(): ties go to idxmax
max_ge_abs_min(mx, mn) == mx >= Abs(mn)

\* lines 99-116: the row of ramps for a component with a known ramp among
\* its kept rows. idxmax and idxmin give the first row of the extremum.
ramps(ts, c) ==
  LET S == Defined(ts, Kept(ts, c))
      mx == SetMax({ts[n].ramp[1] : n \in S})
      mn == SetMin({ts[n].ramp[1] : n \in S})
      imx == ts[SetMin({n \in S : ts[n].ramp[1] = mx})].operating_datetime_utc
      imn == ts[SetMin({n \in S : ts[n].ramp[1] = mn})].operating_datetime_utc
  IN [max_ramp |-> Known(mx), min_ramp |-> Known(mn),
      idxmax_ramp |-> imx, idxmin_ramp |-> imn,
      max_abs_ramp |-> Known(Max2(Abs(mx), Abs(mn))),
      idxmax_abs_ramp |-> IF max_ge_abs_min(mx, mn) THEN imx ELSE imn]

\* the columns of ramps in a row the join fills with missing values
MissingRamps ==
  [max_ramp |-> Missing, min_ramp |-> Missing, idxmax_ramp |-> NaT,
   idxmin_ramp |-> NaT, max_abs_ramp |-> Missing, idxmax_abs_ramp |-> NaT]

\* a variant of the join that fills the columns with zeros
join_ramps_fill_zero(ts, c) ==
  IF Kept(ts, c) = {}
  THEN [max_ramp |-> Known(0), min_ramp |-> Known(0), idxmax_ramp |-> NaT,
        idxmin_ramp |-> NaT, max_abs_ramp |-> Known(0), idxmax_abs_ramp |-> NaT]
  ELSE ramps(ts, c)

\* line 119: component_aggs.join([ramps, ..]) keeps the rows of component_aggs;
\* a component without a kept row is no group of ramps
join_ramps(ts, c) == IF Kept(ts, c) = {} THEN MissingRamps ELSE ramps(ts, c)

\* lines 80-87: the sum over the component's units of each unit's largest load
RECURSIVE sum_of_max(_, _)
sum_of_max(tbl, units) ==
  IF units = {} THEN 0
  ELSE LET u == CHOOSE x \in units : TRUE
       IN SetMax({tbl[i].gross_load_mw : i \in {j \in 1..Len(tbl) : tbl[j].unit_id_epa = u}})
            + sum_of_max(tbl, units \ {u})

\* lines 80-119: component_aggs, one row per component in component_id
\* order, or the error of the ramps aggregation. The columns of meta
\* (aggregate_subcomponents) and the ramp_factor quotients of lines 122-133
\* are not carried.
ramp_aggs(tbl, comp, ts) ==
  LET C == Components(tbl, comp)
      kth(k) == CHOOSE c \in C : Cardinality({d \in C : d < c}) = k - 1
  IN IF idxmax_raises(ts) THEN TypeError
     ELSE [ok |-> TRUE,
           rows |-> [k \in 1..Cardinality(C) |->
                       [component_id |-> kth(k),
                        sum_of_max_gross_load_mw |->
                          sum_of_max(tbl, {tbl[i].unit_id_epa :
                                             i \in {j \in 1..Len(tbl) :
                                                      comp[tbl[j].unit_id_epa] = kth(k)}}),
                        max_of_sum_gross_load_mw |->
                          SetMax({ts[n].gross_load_mw : n \in {m \in 1..Len(ts) : ts[m].component_id = kth(k)}})]
                       @@ join_ramps(ts, kth(k))]]

\* ---------------------------------------------------------- specification
RampLoads == {0, 1, 2}

\* the labels explored: one with an exclusion radius, one without
RampTechs == {"steam_turbine", "gas_turbine"}

\* component_id of unit 1 and of unit 2
ComponentMaps == {<<0, 0>>, <<0, 1>>, <<1, 0>>}

\* process_subset on the hourly rows of one or two units that start together
InitRamps ==
  /\ pc = "start"
  /\ \E n1 \in 1..MaxTimes, n2 \in 0..MaxTimes :
       \E s1 \in [1..n1 -> RampLoads], s2 \in [1..n2 -> RampLoads] :
         cems = UnitTable(1, s1) \o UnitTable(2, s2)
  /\ tech \in RampTechs
  /\ component_of \in ComponentMaps
  /\ component_timeseries = <<>> /\ component_aggs = NoAggs /\ meta = NoAggs
  /\ ser = <<0>> /\ downtime = FALSE /\ events = NoEvents
  /\ xwalk = <<>> /\ prepped = <<>> /\ key_map = <<>> /\ result = NoResult
  /\ ChunksIdle /\ OthersIdle

\* process_subset, cli.py lines 72-79
ComponentTimeseries ==
  /\ pc = "flagged"
  /\ component_timeseries' = sum_by_component(cems, component_of)
  /\ pc' = "timeseries"
  /\ UNCHANGED <<component_of, component_aggs, meta>>
  /\ UNCHANGED cemsVars
  /\ UNCHANGED uptimeVars
  /\ UNCHANGED xwalkVars
  /\ UNCHANGED chunkVars
  /\ UNCHANGED retireVars
  /\ UNCHANGED partition

\* process_subset, cli.py lines 80-119
ComponentAggs ==
  /\ pc = "timeseries"
  /\ component_timeseries' = component_ramp(component_timeseries)
  /\ component_aggs' = ramp_aggs(cems, component_of, component_timeseries')
  /\ pc' = "aggregated"
  /\ UNCHANGED <<component_of, meta>>
  /\ UNCHANGED cemsVars
  /\ UNCHANGED uptimeVars
  /\ UNCHANGED xwalkVars
  /\ UNCHANGED chunkVars
  /\ UNCHANGED retireVars
  /\ UNCHANGED partition

NextRamps ==
  \/ FindEdges \/ DistanceFromDowntime \/ HoursDistance \/ FlagExclusions
  \/ ComponentTimeseries \/ ComponentAggs

SpecRamps == InitRamps /\ [][NextRamps]_vars

\* ------------------------------------- claims on the component-level tables
\* the rows of unit u at timestamp ts in the unit-level table
UnitSamples(u, ts) ==
  {i \in 1..Len(cems) : cems[i].unit_id_epa = u /\ cems[i].operating_datetime_utc = ts}

\* the load of unit u at timestamp ts when it belongs to component c and is
\* present, else nothing
LoadShare(u, c, ts) ==
  IF component_of[u] = c /\ UnitSamples(u, ts) # {}
  THEN cems[CHOOSE i \in UnitSamples(u, ts) : TRUE].gross_load_mw
  ELSE 0

\* some unit of component c is flagged at timestamp ts
FlaggedShare(c, ts) ==
  \E u \in {1, 2} :
    component_of[u] = c /\ \E i \in UnitSamples(u, ts) : cems[i].exclude_ramp

\* C11: in the component-level timeseries there is one row for every
\* (component_id, timestamp) that has a unit sample; its load is the sum of
\* the loads of the component's units present at that timestamp, and it is
\* excluded iff at least one of those unit samples is flagged.
C11_ComponentSumsAndOrs ==
  (pc \in {"timeseries", "aggregated"}) =>
    /\ \A i \in 1..Len(cems) :
         \E n \in 1..Len(component_timeseries) :
           /\ component_timeseries[n].component_id = component_of[cems[i].unit_id_epa]
           /\ component_timeseries[n].operating_datetime_utc = cems[i].operating_datetime_utc
    /\ \A n, m \in 1..Len(component_timeseries) :
         (/\ component_timeseries[n].component_id = component_timeseries[m].component_id
          /\ component_timeseries[n].operating_datetime_utc
               = component_timeseries[m].operating_datetime_utc) => n = m
    /\ \A n \in 1..Len(component_timeseries) :
         LET r == component_timeseries[n]
         IN /\ r.gross_load_mw
                 = LoadShare(1, r.component_id, r.operating_datetime_utc)
                     + LoadShare(2, r.component_id, r.operating_datetime_utc)
            /\ r.exclude_ramp <=> FlaggedShare(r.component_id, r.operating_datetime_utc)

\* two units of one component at one timestamp, one flagged and one not
C11_Witness ==
  /\ pc = "timeseries" /\ component_of[1] = component_of[2]
  /\ \E i, j \in 1..Len(cems) :
       /\ cems[i].unit_id_epa = 1 /\ cems[j].unit_id_epa = 2
       /\ cems[i].operating_datetime_utc = cems[j].operating_datetime_utc
       /\ ~cems[i].exclude_ramp /\ cems[j].exclude_ramp
       /\ cems[i].gross_load_mw > 0 /\ cems[j].gross_load_mw > 0
  /\ \E n \in 1..Len(component_timeseries) : ~component_timeseries[n].exclude_ramp

\* the non-excluded rows of component c with a known ramp
Qualifying(c) ==
  {n \in 1..Len(component_timeseries) :
     /\ component_timeseries[n].component_id = c
     /\ ~component_timeseries[n].exclude_ramp
     /\ component_timeseries[n].ramp # Missing}

\* C12: in the returned aggregate table, a component with at least one
\* non-excluded sample with a known ramp has max_ramp and min_ramp equal to
\* the largest and smallest ramp of its non-excluded samples, and idxmax_ramp
\* and idxmin_ramp are timestamps of non-excluded samples of that component
\* whose ramp is max_ramp and min_ramp.
C12_ExtremaOverNonExcluded ==
  (pc = "aggregated" /\ component_aggs.ok) =>
    \A k \in 1..Len(component_aggs.rows) :
      LET r == component_aggs.rows[k]
          Q == Qualifying(r.component_id)
      IN Q # {} =>
           /\ r.max_ramp # Missing /\ r.min_ramp # Missing
           /\ \A n \in Q : /\ component_timeseries[n].ramp[1] <= r.max_ramp[1]
                           /\ component_timeseries[n].ramp[1] >= r.min_ramp[1]
           /\ \E n \in Q : /\ component_timeseries[n].ramp = r.max_ramp
                           /\ component_timeseries[n].operating_datetime_utc = r.idxmax_ramp
           /\ \E n \in Q : /\ component_timeseries[n].ramp = r.min_ramp
                           /\ component_timeseries[n].operating_datetime_utc = r.idxmin_ramp

\* an excluded sample has a larger ramp than every non-excluded sample
C12_Witness ==
  /\ pc = "aggregated" /\ component_aggs.ok
  /\ \E k \in 1..Len(component_aggs.rows) :
       LET r == component_aggs.rows[k]
       IN /\ Qualifying(r.component_id) # {}
          /\ \E n \in 1..Len(component_timeseries) :
               /\ component_timeseries[n].component_id = r.component_id
               /\ component_timeseries[n].exclude_ramp
               /\ component_timeseries[n].ramp # Missing
               /\ component_timeseries[n].ramp[1] > r.max_ramp[1]

\* C13: for every component with known extrema, max_abs_ramp is the larger
\* of |max_ramp| and |min_ramp|, and idxmax_abs_ramp is idxmax_ramp when
\* max_ramp >= |min_ramp| (ties included) and idxmin_ramp otherwise.
C13_MaxAbsAndItsTimestamp ==
  (pc = "aggregated" /\ component_aggs.ok) =>
    \A k \in 1..Len(component_aggs.rows) :
      LET r == component_aggs.rows[k]
      IN (r.max_ramp # Missing /\ r.min_ramp # Missing) =>
           /\ r.max_abs_ramp # Missing
           /\ r.max_abs_ramp[1] >= Abs(r.max_ramp[1])
           /\ r.max_abs_ramp[1] >= Abs(r.min_ramp[1])
           /\ r.max_abs_ramp[1] \in {Abs(r.max_ramp[1]), Abs(r.min_ramp[1])}
           /\ r.idxmax_abs_ramp
                = (IF r.max_ramp[1] >= Abs(r.min_ramp[1])
                   THEN r.idxmax_ramp ELSE r.idxmin_ramp)

\* a tie: max_ramp = |min_ramp| at two different timestamps
C13_Witness ==
  /\ pc = "aggregated" /\ component_aggs.ok
  /\ \E k \in 1..Len(component_aggs.rows) :
       LET r == component_aggs.rows[k]
       IN /\ r.max_ramp # Missing /\ r.max_ramp[1] > 0
          /\ r.max_ramp[1] = Abs(r.min_ramp[1])
          /\ r.idxmax_ramp # r.idxmin_ramp
          /\ r.idxmax_abs_ramp = r.idxmax_ramp

\* every row of component c in the component timeseries is excluded
FullyExcluded(c) ==
  \A n \in 1..Len(component_timeseries) :
    component_timeseries[n].component_id = c => component_timeseries[n].exclude_ramp

C15_AllMissingRampsGiveMissing ==
  (pc = "aggregated") =>
    \A c \in Components(cems, component_of) :
      (~FullyExcluded(c) /\ Qualifying(c) = {}) =>
        /\ component_aggs.ok
        /\ \E k \in 1..Len(component_aggs.rows) :
             /\ component_aggs.rows[k].component_id = c
             /\ component_aggs.rows[k].max_ramp = Missing
             /\ component_aggs.rows[k].min_ramp = Missing

\* ===================================================== aggregate_subcomponents
CAMD_FUEL_MAP ==
  ("Pipeline Natural Gas" :> "gas") @@
  ("Coal" :> "coal") @@
  ("Diesel Oil" :> "oil") @@
  ("Natural Gas" :> "gas") @@
  ("Process Gas" :> "gas") @@
  ("Residual Oil" :> "oil") @@
  ("Other Gas" :> "gas") @@
  ("Wood" :> "other") @@
  ("Other Oil" :> "oil") @@
  ("Coal Refuse" :> "coal") @@
  ("Petroleum Coke" :> "oil") @@
  ("Tire Derived Fuel" :> "other") @@
  ("Other Solid Fuel" :> "other")

EIA_FUEL_MAP ==
  ("AB" :> "other") @@
  ("ANT" :> "coal") @@
  ("BFG" :> "gas") @@
  ("BIT" :> "coal") @@
  ("BLQ" :> "other") @@
  ("CBL" :> "Coal") @@
  ("DFO" :> "oil") @@
  ("JF" :> "oil") @@
  ("KER" :> "oil") @@
  ("LFG" :> "gas") @@
  ("LIG" :> "coal") @@
  ("MSB" :> "other") @@
  ("MSN" :> "other") @@
  ("MSW" :> "other") @@
  ("MWH" :> "other") @@
  ("NG" :> "gas") @@
  ("OBG" :> "gas") @@
  ("OBL" :> "other") @@
  ("OBS" :> "other") @@
  ("OG" :> "gas") @@
  ("OTH" :> "other") @@
  ("PC" :> "oil") @@
  ("PG" :> "gas") @@
  ("PUR" :> "other") @@
  ("RC" :> "coal") @@
  ("RFO" :> "oil") @@
  ("SC" :> "coal") @@
  ("SGC" :> "gas") @@
  ("SGP" :> "gas") @@
  ("SLW" :> "other") @@
  ("SUB" :> "coal") @@
  ("SUN" :> "gas") @@
  ("TDF" :> "other") @@
  ("WC" :> "coal") @@
  ("WDL" :> "other") @@
  ("WDS" :> "other") @@
  ("WH" :> "other") @@
  ("WO" :> "oil")

TECH_TYPE_MAP ==
  ({"ST"} :> "steam_turbine") @@
  ({"GT"} :> "gas_turbine") @@
  ({"CT"} :> "combined_cycle") @@
  ({"CA"} :> "combined_cycle") @@
  ({"CS"} :> "combined_cycle") @@
  ({"IC"} :> "internal_combustion") @@
  ({"CT", "CA"} :> "combined_cycle") @@
  ({"ST", "GT"} :> "combined_cycle") @@
  ({"CA", "GT"} :> "combined_cycle") @@
  ({"CT", "CA", "ST"} :> "combined_cycle")

\* the columns aggregate_subcomponents and _assign_by_capacity use per agency
Agency ==
  [CAMD |-> [unit |-> "CAMD_UNIT_ID", capacity |-> "CAMD_NAMEPLATE_CAPACITY",
             fuel |-> "CAMD_FUEL_TYPE", simple |-> "simple_CAMD_FUEL_TYPE",
             mapping |-> CAMD_FUEL_MAP],
   EIA |-> [unit |-> "EIA_GENERATOR_ID", capacity |-> "EIA_NAMEPLATE_CAPACITY",
            fuel |-> "EIA_FUEL_TYPE", simple |-> "simple_EIA_FUEL_TYPE",
            mapping |-> EIA_FUEL_MAP]]

\* the simplified categories in the order groupby sorts them (str order)
CategoryOrder == <<"Coal", "coal", "gas", "oil", "other">>

\* xwalk[col].map(mapping): a code that is no key of the mapping, or is
\* missing, maps to a missing value
map_code(mapping, code) ==
  IF code # Missing /\ code[1] \in DOMAIN mapping
  THEN Known(mapping[code[1]]) ELSE Missing

\* a variant that notices only a column in which every code is unmapped
has_unmapped_only(tbl, col, mapping) ==
  \A i \in 1..Len(tbl) : tbl[i][col] # Missing /\ tbl[i][col][1] \notin DOMAIN mapping

\* lines 407-410: xwalk[simple].isna().sum() > nan_count
has_unmapped(tbl, col, mapping) ==
  \E i \in 1..Len(tbl) : tbl[i][col] # Missing /\ tbl[i][col][1] \notin DOMAIN mapping

\* line 409: xwalk[simple] = xwalk[col].map(mapping), on the table passed in
add_simple(tbl, a) ==
  [i \in 1..Len(tbl) |->
     (a.simple :> map_code(a.mapping, tbl[i][a.fuel])) @@ tbl[i]]

ComponentRows(tbl, c) == {i \in 1..Len(tbl) : tbl[i].component_id = c}

\* a variant without the deduplication: every row is a group of its own
RowGroups(tbl, c, unit) == {{i} : i \in ComponentRows(tbl, c)}

\* groupby(by=["component_id", unit]): the row sets of the units of c
UnitGroups(tbl, c, unit) ==
  {{i \in ComponentRows(tbl, c) : tbl[i][unit] = u} :
     u \in {tbl[j][unit] : j \in ComponentRows(tbl, c)}}

\* .first(): the first non-missing value of a column in a group
First(tbl, rows, col) ==
  LET known == {i \in rows : tbl[i][col] # Missing}
  IN IF known = {} THEN Missing ELSE tbl[SetMin(known)][col]

\* [capacity].sum() over the deduplicated groups: missing values are skipped
RECURSIVE SumFirst(_, _, _)
SumFirst(tbl, groups, col) ==
  IF groups = {} THEN 0
  ELSE LET g == CHOOSE x \in groups : TRUE
           v == First(tbl, g, col)
       IN (IF v = Missing THEN 0 ELSE v[1]) + SumFirst(tbl, groups \ {g}, col)

\* .replace(0, np.nan)
replace_zero(total) == IF total = 0 THEN Missing ELSE Known(total)

\* lines 396-402: capacity_{agency} of component c
capacity(tbl, c, a) ==
  replace_zero(SumFirst(tbl, UnitGroups(tbl, c, a.unit), a.capacity))

\* a variant of the tie break that takes the last category
last_category(cats) ==
  CHOOSE x \in cats : \A y \in cats : Pos(CategoryOrder, y) <= Pos(CategoryOrder, x)

\* line 449: ~out.index.duplicated(keep="first"), alphabetical due to groupby
first_category(cats) ==
  CHOOSE x \in cats : \A y \in cats : Pos(CategoryOrder, x) <= Pos(CategoryOrder, y)

\* _assign_by_capacity(xwalk, col) at component c: the category of the
\* largest summed capacity of the deduplicated units; a sum of zero is
\* missing and equal to no maximum
assign_by_capacity(tbl, c, a) ==
  LET groups == UnitGroups(tbl, c, a.unit)
      cat(g) == First(tbl, g, a.simple)
      cats == {cat(g)[1] : g \in {h \in groups : cat(h) # Missing}}
      total(x) == replace_zero(SumFirst(tbl, {g \in groups : cat(g) = Known(x)}, a.capacity))
      known == {x \in cats : total(x) # Missing}
      best == {x \in known : \A y \in known : total(y)[1] <= total(x)[1]}
  IN IF best = {} THEN Missing ELSE Known(first_category(best))

\* lines 386-391: frozenset(x.values) of EIA_UNIT_TYPE per component
unit_types(tbl, c) == {tbl[i].EIA_UNIT_TYPE : i \in ComponentRows(tbl, c)}

\* a variant that looks the codes up one by one
tech_type_of_any_code(types) ==
  IF \E k \in DOMAIN TECH_TYPE_MAP : k \subseteq types
  THEN Known(TECH_TYPE_MAP[CHOOSE k \in DOMAIN TECH_TYPE_MAP : k \subseteq types])
  ELSE Missing

\* line 414: aggs["EIA_UNIT_TYPE"].map(tech_type_map)
tech_type(types) ==
  IF types \in DOMAIN TECH_TYPE_MAP THEN Known(TECH_TYPE_MAP[types]) ELSE Missing

ValueError == [ok |-> FALSE, rows |-> <<>>]

\* aggregate_subcomponents(xwalk): the profile of every component, in
\* component_id order, or the error of line 411
aggregate_subcomponents(tbl) ==
  LET C == {tbl[i].component_id : i \in 1..Len(tbl)}
      kth(k) == CHOOSE c \in C : Cardinality({d \in C : d < c}) = k - 1
      simple == add_simple(add_simple(tbl, Agency.CAMD), Agency.EIA)
  IN IF \E n \in DOMAIN Agency : has_unmapped(tbl, Agency[n].fuel, Agency[n].mapping)
     THEN ValueError
     ELSE [ok |-> TRUE,
           rows |-> [k \in 1..Cardinality(C) |->
              [component_id |-> kth(k),
               EIA_UNIT_TYPE |-> unit_types(tbl, kth(k)),
               capacity_CAMD |-> capacity(tbl, kth(k), Agency.CAMD),
               capacity_EIA |-> capacity(tbl, kth(k), Agency.EIA),
               simple_CAMD_FUEL_TYPE_via_capacity |->
                 assign_by_capacity(simple, kth(k), Agency.CAMD),
               simple_EIA_FUEL_TYPE_via_capacity |->
                 assign_by_capacity(simple, kth(k), Agency.EIA),
               simple_EIA_UNIT_TYPE |-> tech_type(unit_types(tbl, kth(k)))]]]

\* the table passed in, as the call leaves it: the simple_ column of a fuel
\* column is added before that column's check
xwalk_after(tbl) ==
  IF has_unmapped(tbl, Agency.CAMD.fuel, Agency.CAMD.mapping)
  THEN add_simple(tbl, Agency.CAMD)
  ELSE add_simple(add_simple(tbl, Agency.CAMD), Agency.EIA)

\* ---------------------------------------------------------- specification
\* the combustors and generators of the plant explored
AggUnits == {1, 2}
AggGenerators == {1, 2}

Capacities == {Missing, Known(0), Known(1)}

\* raw fuel codes: mapped codes, one that is no key of the mapping, and a
\* missing one
CamdCodes == {Known("Coal"), Known("Natural Gas"), Known("Hydrogen"), Missing}
EiaCodes == {Known("BIT"), Known("CBL"), Known("NG"), Known("H2"), Missing}

UnitTypeCodes == {"ST", "CT"}

CamdAttrs == [capacity : Capacities, fuel : CamdCodes]
EiaAttrs == [capacity : Capacities, fuel : EiaCodes, type : UnitTypeCodes]

\* the attributes of the side that is not varied
DefaultCamd == [capacity |-> Known(1), fuel |-> Known("Coal")]
DefaultEia == [capacity |-> Known(1), fuel |-> Known("NG"), type |-> "ST"]

\* the links reachable from the links of S through shared units or generators
RECURSIVE LinkedEdges(_, _)
LinkedEdges(E, S) ==
  LET next == S \cup {e \in E : \E f \in S : e[1] = f[1] \/ e[2] = f[2]}
  IN IF next = S THEN S ELSE LinkedEdges(E, next)

\* key_map as make_subcomponent_ids returns it: one row per link between a
\* combustor and a generator, numbered by connected component, and carrying
\* the attributes of its combustor and of its generator
KeyMap(E, camd, eia) ==
  LET edges == SortedKeys(E)
  IN [n \in 1..Len(edges) |->
        [component_id |-> IF edges[n] \in LinkedEdges(E, {edges[1]}) THEN 0 ELSE 1,
         CAMD_UNIT_ID |-> edges[n][1],
         EIA_GENERATOR_ID |-> edges[n][2],
         CAMD_NAMEPLATE_CAPACITY |-> camd[edges[n][1]].capacity,
         CAMD_FUEL_TYPE |-> camd[edges[n][1]].fuel,
         EIA_NAMEPLATE_CAPACITY |-> eia[edges[n][2]].capacity,
         EIA_FUEL_TYPE |-> eia[edges[n][2]].fuel,
         EIA_UNIT_TYPE |-> eia[edges[n][2]].type]]

\* process_subset up to line 61: key_map is built; one side of the
\* crosswalk holds its default attributes while the other is varied
InitAggregate ==
  /\ pc = "start"
  /\ \E E \in SUBSET (AggUnits \X AggGenerators) :
       /\ Cardinality(E) \in 1..MaxRows
       /\ \E camd \in [AggUnits -> CamdAttrs], eia \in [AggGenerators -> EiaAttrs] :
            /\ \/ \A u \in AggUnits : camd[u] = DefaultCamd
               \/ \A g \in AggGenerators : eia[g] = DefaultEia
            /\ key_map = KeyMap(E, camd, eia)
  /\ xwalk = <<>> /\ prepped = <<>> /\ result = NoResult
  /\ ser = <<0>> /\ downtime = FALSE /\ events = NoEvents
  /\ cems = <<>> /\ tech = "nan"
  /\ RampsIdle /\ ChunksIdle /\ OthersIdle

\* process_subset, cli.py line 62: meta = feat.aggregate_subcomponents(key_map)
AggregateSubcomponents ==
  /\ pc = "start"
  /\ meta' = aggregate_subcomponents(key_map)
  /\ key_map' = xwalk_after(key_map)
  /\ pc' = "meta"
  /\ UNCHANGED <<xwalk, prepped, result>>
  /\ UNCHANGED <<component_of, component_timeseries, component_aggs>>
  /\ UNCHANGED uptimeVars
  /\ UNCHANGED cemsVars
  /\ UNCHANGED chunkVars
  /\ UNCHANGED retireVars
  /\ UNCHANGED partition

NextAggregate == AggregateSubcomponents

SpecAggregate == InitAggregate /\ [][NextAggregate]_vars

\* ------------------------------------------------- claims on the profiles
\* the rows of the table passed in whose raw fuel code of agency n is
\* present but no key of the agency's mapping table
UnmappedRows(n) ==
  {i \in 1..Len(key_map) :
     /\ key_map[i][Agency[n].fuel] # Missing
     /\ key_map[i][Agency[n].fuel][1] \notin DOMAIN Agency[n].mapping}

\* C16: aggregate_subcomponents raises exactly when some non-missing raw
\* fuel code of either agency is absent from its mapping table; a returned
\* profile comes from a table in which every present code got a category,
\* and missing raw codes alone never raise.
C16_UnmappedCodeRaises ==
  pc = "meta" =>
    /\ (meta = ValueError) <=> (\E n \in DOMAIN Agency : UnmappedRows(n) # {})
    /\ meta.ok =>
         \A n \in DOMAIN Agency : \A i \in 1..Len(key_map) :
           (key_map[i][Agency[n].simple] = Missing)
             <=> (key_map[i][Agency[n].fuel] = Missing)

\* the call raised on a table that holds an unmapped code next to a
\* missing one
C16_Witness ==
  /\ pc = "meta"
  /\ meta = ValueError
  /\ \E n \in DOMAIN Agency :
       /\ UnmappedRows(n) # {}
       /\ \E i \in 1..Len(key_map) : key_map[i][Agency[n].fuel] = Missing

\* a profile was returned for a table with a missing raw code
C16_MissingCodeAccepted ==
  /\ pc = "meta"
  /\ meta.ok
  /\ \E i \in 1..Len(key_map) : key_map[i].CAMD_FUEL_TYPE = Missing

\* the distinct physical units of agency n in component c
UnitsOf(c, n) == {key_map[i][Agency[n].unit] : i \in ComponentRows(key_map, c)}

\* an attribute of unit u of agency n, read from the rows of the unit
UnitAttr(c, n, u, col) ==
  LET rows == {i \in ComponentRows(key_map, c) : key_map[i][Agency[n].unit] = u}
  IN key_map[CHOOSE i \in rows : TRUE][col]

\* the nameplate capacity of the units U, each counted once
RECURSIVE NameplateSum(_, _, _)
NameplateSum(c, n, U) ==
  IF U = {} THEN 0
  ELSE LET u == CHOOSE x \in U : TRUE
           v == UnitAttr(c, n, u, Agency[n].capacity)
       IN (IF v = Missing THEN 0 ELSE v[1]) + NameplateSum(c, n, U \ {u})

\* the simplified categories present in component c, and the capacity of each
CategoriesOf(c, n) ==
  {UnitAttr(c, n, u, Agency[n].simple)[1] :
     u \in {v \in UnitsOf(c, n) : UnitAttr(c, n, v, Agency[n].simple) # Missing}}

CategoryTotal(c, n, x) ==
  NameplateSum(c, n, {u \in UnitsOf(c, n) : UnitAttr(c, n, u, Agency[n].simple) = Known(x)})

LargestCategories(c, n) ==
  {x \in CategoriesOf(c, n) :
     \A y \in CategoriesOf(c, n) : CategoryTotal(c, n, y) <= CategoryTotal(c, n, x)}

\* the alphabetically first name of a set of categories
Alphabetical == <<"Coal", "coal", "gas", "oil", "other">>

FirstName(cats) ==
  CHOOSE x \in cats : \A y \in cats : Pos(Alphabetical, x) <= Pos(Alphabetical, y)

FuelLabel(r, n) ==
  IF n = "CAMD" THEN r.simple_CAMD_FUEL_TYPE_via_capacity
  ELSE r.simple_EIA_FUEL_TYPE_via_capacity

\* the categories of non-zero total capacity, and the largest of them
NonZeroCategories(c, n) == {x \in CategoriesOf(c, n) : CategoryTotal(c, n, x) # 0}

LargestNonZero(c, n) ==
  {x \in NonZeroCategories(c, n) :
     \A y \in NonZeroCategories(c, n) : CategoryTotal(c, n, y) <= CategoryTotal(c, n, x)}

CapacityOf(r, n) == IF n = "CAMD" THEN r.capacity_CAMD ELSE r.capacity_EIA

\* C18: for each agency the capacity of a component is the sum of the
\* nameplate capacity of its distinct units of that agency, each counted
\* once however many rows link it, and is missing when that sum is zero.
C18_CapacityCountsUnitsOnce ==
  (pc = "meta" /\ meta.ok) =>
    \A k \in 1..Len(meta.rows) : \A n \in DOMAIN Agency :
      LET c == meta.rows[k].component_id
          total == NameplateSum(c, n, UnitsOf(c, n))
      IN /\ total # 0 => CapacityOf(meta.rows[k], n) = Known(total)
         /\ total = 0 => CapacityOf(meta.rows[k], n) = Missing

\* a unit of non-zero capacity is linked by two rows of a component and the
\* component's capacity counts it once
C18_Witness ==
  /\ pc = "meta" /\ meta.ok
  /\ \E k \in 1..Len(meta.rows) : \E n \in DOMAIN Agency :
       LET c == meta.rows[k].component_id
       IN /\ \E i, j \in ComponentRows(key_map, c) :
               /\ i # j
               /\ key_map[i][Agency[n].unit] = key_map[j][Agency[n].unit]
               /\ key_map[i][Agency[n].capacity] = Known(1)
          /\ CapacityOf(meta.rows[k], n) = Known(NameplateSum(c, n, UnitsOf(c, n)))

\* a component whose units of an agency sum to zero has a missing capacity
C18_ZeroIsMissing ==
  /\ pc = "meta" /\ meta.ok
  /\ \E k \in 1..Len(meta.rows) : \E n \in DOMAIN Agency :
       LET c == meta.rows[k].component_id
       IN /\ \E i \in ComponentRows(key_map, c) : key_map[i][Agency[n].capacity] = Known(0)
          /\ CapacityOf(meta.rows[k], n) = Missing

\* C19: the technology label of a component is the TECH_TYPE_MAP entry of
\* exactly the set of unit-type codes of its rows: steam_turbine for {ST},
\* combined_cycle for {CT}, and a missing label, without an error, for
\* {ST, CT}, which is no key of the table.
C19_TechLabelByExactSet ==
  pc = "meta" =>
    /\ meta.ok <=> (\A n \in DOMAIN Agency : UnmappedRows(n) = {})
    /\ \A k \in 1..Len(meta.rows) :
         LET codes == {key_map[i].EIA_UNIT_TYPE :
                         i \in ComponentRows(key_map, meta.rows[k].component_id)}
             label == meta.rows[k].simple_EIA_UNIT_TYPE
         IN /\ codes = {"ST"} => label = Known("steam_turbine")
            /\ codes = {"CT"} => label = Known("combined_cycle")
            /\ codes = {"ST", "CT"} => label = Missing
            /\ codes \in DOMAIN TECH_TYPE_MAP => label = Known(TECH_TYPE_MAP[codes])
            /\ codes \notin DOMAIN TECH_TYPE_MAP => label = Missing

\* a component of an ST and a CT generator was profiled, without a label
C19_Witness ==
  /\ pc = "meta" /\ meta.ok
  /\ \E k \in 1..Len(meta.rows) :
       /\ {key_map[i].EIA_UNIT_TYPE :
             i \in ComponentRows(key_map, meta.rows[k].component_id)} = {"ST", "CT"}
       /\ meta.rows[k].simple_EIA_UNIT_TYPE = Missing

\* =========================================================================
\* main: the chunk loop and the component_id offset
\* =========================================================================
MaxChunks == 4
MaxComponents == 3

\* a variant that forgets the + 1
next_offset_without_one(offset, ids) == offset + SetMax(ids)

\* cli.py line 183: offset += agg.index.max() + 1, where the index of agg
\* holds the ids of the chunk with the offset already added
next_offset(offset, ids) == offset + SetMax(ids) + 1

\* cli.py lines 53-55 and 80-94: the n components of a chunk are numbered
\* from 0 and shifted by the offset passed in; each is a row of
\* component_aggs
chunk_ids(n, offset) == {id + offset : id \in 0..(n - 1)}

InitChunks ==
  /\ pc = "loop"
  /\ component_id_offset = 0
  /\ aggregates = <<>>
  /\ outputs = {}
  /\ xwalk = <<>> /\ prepped = <<>> /\ key_map = <<>> /\ result = NoResult
  /\ ser = <<0>> /\ downtime = FALSE /\ events = NoEvents
  /\ cems = <<>> /\ tech = "nan"
  /\ RampsIdle /\ OthersIdle

\* line 176: outputs = process_subset(cems, crosswalk, component_id_offset=offset),
\* for a chunk of n >= 1 components
ProcessSubset ==
  /\ pc = "loop"
  /\ Len(aggregates) < MaxChunks
  /\ \E n \in 1..MaxComponents : outputs' = chunk_ids(n, component_id_offset)
  /\ pc' = "processed"
  /\ UNCHANGED <<component_id_offset, aggregates>>
  /\ UNCHANGED <<xwalk, prepped, key_map, result>>
  /\ UNCHANGED uptimeVars
  /\ UNCHANGED cemsVars
  /\ UNCHANGED rampVars
  /\ UNCHANGED retireVars
  /\ UNCHANGED partition

\* lines 177-183: the chunk's table is appended and the offset advanced
AppendChunk ==
  /\ pc = "processed"
  /\ aggregates' = Append(aggregates, outputs)
  /\ component_id_offset' = next_offset(component_id_offset, outputs)
  /\ pc' = "loop"
  /\ UNCHANGED outputs
  /\ UNCHANGED <<xwalk, prepped, key_map, result>>
  /\ UNCHANGED uptimeVars
  /\ UNCHANGED cemsVars
  /\ UNCHANGED rampVars
  /\ UNCHANGED retireVars
  /\ UNCHANGED partition

NextChunks == ProcessSubset \/ AppendChunk

SpecChunks == InitChunks /\ [][NextChunks]_vars

\* the id sets of the chunks processed so far, the one in hand included
ChunkIds == IF pc = "processed" THEN Append(aggregates, outputs) ELSE aggregates

\* C20: the component ids of different chunks are disjoint, every id of a
\* later chunk being strictly greater than every id of an earlier chunk.
C20_LaterChunkIdsAreGreater ==
  \A i, j \in 1..Len(ChunkIds) :
    i < j => \A a \in ChunkIds[i], b \in ChunkIds[j] : a < b

\* three chunks were processed, the first two of several components
C20_Witness ==
  /\ Len(ChunkIds) >= 3
  /\ Cardinality(ChunkIds[1]) > 1
  /\ Cardinality(ChunkIds[2]) > 1
  /\ \A i \in 1..Len(ChunkIds) : ChunkIds[i] # {}

\* =========================================================================
\* further claims on _find_uptime
\* =========================================================================
\* a sample counts as non-zero when its load is greater than zero
On(s, i) == i \in 1..Len(s) /\ s[i] # NaN /\ s[i] > 0

\* the position of a timestamp of the series
PosOf(ts) == ts + 1

KnownStartups == {events.rows[k][2] : k \in 1..Len(events.rows)} \ {NaT}
KnownShutdowns == {events.rows[k][1] : k \in 1..Len(events.rows)} \ {NaT}

\* C21 (as amended): every known startup timestamp of the event table is
\* the timestamp of the last zero sample before a zero -> non-zero
\* transition (the zero side of the edge), and every known shutdown
\* timestamp is the first zero sample after a non-zero -> zero transition;
\* a missing load counts as zero.
C21_StartupIsLastZeroSample ==
  (pc = "done" /\ events.ok) =>
    /\ \A t \in KnownStartups :
         ~On(ser, PosOf(t)) /\ On(ser, PosOf(t) + 1)
    /\ \A t \in KnownShutdowns :
         ~On(ser, PosOf(t)) /\ On(ser, PosOf(t) - 1)

\* a table with a known startup and a known shutdown was built from a series
\* that goes down and comes back
C21_Witness ==
  /\ pc = "done" /\ events.ok /\ NoMissing(ser)
  /\ KnownStartups # {} /\ KnownShutdowns # {}
  /\ \E t \in KnownStartups : \E u \in KnownShutdowns : u < t

\* C21 (as stated): every known startup timestamp is the first non-zero
\* sample after a zero -> non-zero transition, and every known shutdown
\* timestamp the first zero sample after a non-zero -> zero transition.
C21_StartupIsFirstNonZeroSample ==
  (pc = "done" /\ events.ok /\ NoMissing(ser)) =>
    /\ \A t \in KnownStartups :
         On(ser, PosOf(t)) /\ PosOf(t) > 1 /\ ~On(ser, PosOf(t) - 1)
    /\ \A t \in KnownShutdowns :
         ~On(ser, PosOf(t)) /\ On(ser, PosOf(t) - 1)

\* =========================================================================
\* further claims on the edges and the distances
\* =========================================================================
\* the rows of unit u, in table order
RowsOfUnit(u) == {i \in 1..Len(cems) : cems[i].unit_id_epa = u}

UnitsOfCems == {cems[i].unit_id_epa : i \in 1..Len(cems)}

\* the loads of unit u as a series of its own (the rows of a unit are
\* consecutive: the table is sorted by unit, then time)
LoadsOfUnit(u) ==
  LET first == SetMin(RowsOfUnit(u))
  IN [k \in 1..Cardinality(RowsOfUnit(u)) |-> cems[first + k - 1].gross_load_mw]

Marks(r) == <<r.startups, r.shutdowns>>

\* C22: the marks of _find_edges on a unit's rows depend on that unit's
\* loads only: the first row of every unit carries no mark, every other row
\* is marked by the step from its own unit's previous load, and the marks
\* are those the unit's rows get in a table that holds no other unit.
C22_EdgesWithinUnitOnly ==
  pc = "edges" =>
    \A u \in UnitsOfCems :
      LET first == SetMin(RowsOfUnit(u))
          n == Cardinality(RowsOfUnit(u))
          alone == find_edges(UnitTable(u, LoadsOfUnit(u)))
      IN /\ Marks(cems[first]) = <<NaT, NaT>>
         /\ \A k \in 1..n : Marks(cems[first + k - 1]) = Marks(alone[k])
         /\ \A k \in 2..n :
              LET r == cems[first + k - 1]
                  before == cems[first + k - 2].gross_load_mw
              IN /\ r.startups # NaT <=> (before = 0 /\ r.gross_load_mw > 0)
                 /\ r.shutdowns # NaT <=> (before > 0 /\ r.gross_load_mw = 0)

\* the second unit starts running right after the first unit's last, idle
\* sample, and starts up again later on
C22_Witness ==
  /\ pc = "edges"
  /\ UnitsOfCems = {1, 2}
  /\ cems[SetMax(RowsOfUnit(1))].gross_load_mw = 0
  /\ cems[SetMin(RowsOfUnit(2))].gross_load_mw = 1
  /\ Marks(cems[SetMin(RowsOfUnit(2))]) = <<NaT, NaT>>
  /\ \E i \in RowsOfUnit(2) : cems[i].startups # NaT

\* row j is the first non-zero sample after a zero sample of its own unit
\* (the table is sorted by unit, then time)
StartsUp(j) ==
  /\ j > 1 /\ cems[j - 1].unit_id_epa = cems[j].unit_id_epa
  /\ cems[j - 1].gross_load_mw = 0 /\ cems[j].gross_load_mw > 0

\* row j is the first zero sample after a non-zero sample of its own unit
ShutsDown(j) ==
  /\ j > 1 /\ cems[j - 1].unit_id_epa = cems[j].unit_id_epa
  /\ cems[j - 1].gross_load_mw > 0 /\ cems[j].gross_load_mw = 0

NoTransition(u) == \A j \in RowsOfUnit(u) : ~StartsUp(j) /\ ~ShutsDown(j)

\* C23: a sample with no startup at or before it in its unit's series is
\* (its timestamp - the unit's first timestamp) + 24 hours from startup, a
\* sample with no shutdown at or after it (the unit's last timestamp - its
\* timestamp) + 24 hours to shutdown; a sample of a unit without any
\* transition has hours_distance >= 24 and is not excluded.
C23_BoundaryOffsetDistances ==
  pc = "flagged" =>
    \A i \in 1..Len(cems) :
      LET rows == RowsOfUnit(cems[i].unit_id_epa)
          ts == cems[i].operating_datetime_utc
          first == cems[SetMin(rows)].operating_datetime_utc
          last == cems[SetMax(rows)].operating_datetime_utc
      IN /\ (\A j \in rows : j <= i => ~StartsUp(j))
              => cems[i].hours_from_startup = (ts - first) + 24
         /\ (\A j \in rows : j >= i => ~ShutsDown(j))
              => cems[i].hours_to_shutdown = (last - ts) + 24
         /\ NoTransition(cems[i].unit_id_epa)
              => cems[i].hours_distance >= 24 /\ ~cems[i].exclude_ramp

\* a steam turbine's table was flagged: one unit never changes state and
\* none of its samples is excluded, the other unit starts up after a sample
\* that has no startup before it
C23_Witness ==
  /\ pc = "flagged" /\ tech = "steam_turbine"
  /\ UnitsOfCems = {1, 2}
  /\ NoTransition(1) /\ Cardinality(RowsOfUnit(1)) > 1
  /\ \A i \in RowsOfUnit(1) : ~cems[i].exclude_ramp
  /\ \E i, j \in RowsOfUnit(2) :
       /\ i < j /\ StartsUp(j)
       /\ cems[i].hours_from_startup = cems[i].operating_datetime_utc + 24
       /\ cems[j].exclude_ramp

\* =========================================================================
\* _filter_retirements
\* =========================================================================
\* CAMD_RETIRE_YEAR.replace(0, 3000)
replace_zero_year(y) == IF y = 0 THEN 3000 ELSE y

\* pd.to_datetime(CAMD_STATUS_DATE).dt.year of a date <<year, month, day>>
dt_year(date) == date[1]

\* crosswalk["CAMD_RETIRE_YEAR"].replace(0, 3000) >= min_year
not_retired_before_start(r, yr) == replace_zero_year(r.CAMD_RETIRE_YEAR) >= yr[1]

\* (status date year <= max_year) & CAMD_STATUS.ne("RET")
not_built_after_end(r, yr) ==
  dt_year(r.CAMD_STATUS_DATE) <= yr[2] /\ r.CAMD_STATUS # "RET"

\* crosswalk.loc[not_retired_before_start & not_built_after_end]
filter_retirements(tbl, yr) ==
  MaskFrom(tbl,
           [i \in 1..Len(tbl) |->
              not_retired_before_start(tbl[i], yr) /\ not_built_after_end(tbl[i], yr)],
           1)

\* ---------------------------------------------------------- specification
Years == {2014, 2015, 2016, 2017}

\* a unit in operation since the status date, or one retired on it; the
\* retirement year is 0 for a unit that is not retired
RetirementRows ==
  {[CAMD_STATUS |-> "OPR", CAMD_RETIRE_YEAR |-> 0, CAMD_STATUS_DATE |-> <<y, 1, 1>>] :
     y \in Years}
  \cup
  {[CAMD_STATUS |-> "RET", CAMD_RETIRE_YEAR |-> y, CAMD_STATUS_DATE |-> <<y, 12, 31>>] :
     y \in Years}

InitRetirements ==
  /\ pc = "start"
  /\ \E n \in 1..MaxRows : \E rows \in [1..n -> RetirementRows] :
       xwalk = [i \in 1..n |-> rows[i] @@ [row |-> i]]
  /\ \E lo, hi \in Years : lo <= hi /\ year_range = <<lo, hi>>
  /\ filtered = <<>> /\ partition = <<>>
  /\ prepped = <<>> /\ key_map = <<>> /\ result = NoResult
  /\ ser = <<0>> /\ downtime = FALSE /\ events = NoEvents
  /\ cems = <<>> /\ tech = "nan"
  /\ RampsIdle /\ ChunksIdle

\* crosswalk = _filter_retirements(crosswalk, year_range)
FilterRetirements ==
  /\ pc = "start"
  /\ filtered' = filter_retirements(xwalk, year_range)
  /\ pc' = "filtered"
  /\ UNCHANGED year_range
  /\ UNCHANGED partition
  /\ UNCHANGED xwalkVars
  /\ UNCHANGED uptimeVars
  /\ UNCHANGED cemsVars
  /\ UNCHANGED rampVars
  /\ UNCHANGED chunkVars

NextRetirements == FilterRetirements

SpecRetirements == InitRetirements /\ [][NextRetirements]_vars

\* ------------------------------------------ claims on _filter_retirements
\* the row has no year in common with the range: retired before it began,
\* or its status date is after it ended
NoOverlap(r) ==
  \/ (r.CAMD_RETIRE_YEAR # 0 /\ r.CAMD_RETIRE_YEAR < year_range[1])
  \/ dt_year(r.CAMD_STATUS_DATE) > year_range[2]

\* C24: _filter_retirements removes exactly the rows without overlap with
\* the year range (retired before min_year, or status date after max_year)
\* and keeps every other row, a unit retired inside the range included.
C24_RemovesExactlyNonOverlapping ==
  pc = "filtered" =>
    \A i \in 1..Len(xwalk) :
      (\E k \in 1..Len(filtered) : filtered[k] = xwalk[i]) <=> ~NoOverlap(xwalk[i])

\* =========================================================================
\* further claims on aggregate_subcomponents
\* =========================================================================
SimplifiedCategories == {"gas", "coal", "oil", "other"}

\* C25: every mapped raw fuel code lands in one of the four simplified
\* categories gas, coal, oil, other: after a call that returned a profile,
\* the simplified fuel of every row of either agency is missing or one of
\* the four, and so is every fuel label of the profile.
C25_FourSimplifiedCategories ==
  (pc = "meta" /\ meta.ok) =>
    /\ \A i \in 1..Len(key_map) : \A n \in DOMAIN Agency :
         \/ key_map[i][Agency[n].simple] = Missing
         \/ key_map[i][Agency[n].simple][1] \in SimplifiedCategories
    /\ \A k \in 1..Len(meta.rows) : \A n \in DOMAIN Agency :
         \/ FuelLabel(meta.rows[k], n) = Missing
         \/ FuelLabel(meta.rows[k], n)[1] \in SimplifiedCategories

\* C27: aggregate_subcomponents leaves the table passed to it as it was,
\* when it returns a profile and when it raises.
C27_InputTableUnchanged ==
  [][(pc = "start" /\ pc' = "meta") => key_map' = key_map]_vars

\* =========================================================================
\* further claims on the ramps
\* =========================================================================
\* the timestamps of component c, and its summed load at one of them
TimesOf(c) ==
  {cems[i].operating_datetime_utc :
     i \in {j \in 1..Len(cems) : component_of[cems[j].unit_id_epa] = c}}

ComponentLoad(c, t) ==
  SumCol(cems,
         {i \in 1..Len(cems) : /\ component_of[cems[i].unit_id_epa] = c
                               /\ cems[i].operating_datetime_utc = t},
         "gross_load_mw")

\* C26: the ramp of a component at a timestamp is its summed load there
\* minus its summed load at its own preceding timestamp, whether or not
\* that sample is excluded; it is missing at the component's first
\* timestamp and never a difference between two components.
C26_RampIsDiffWithinComponent ==
  pc = "aggregated" =>
    \A n \in 1..Len(component_timeseries) :
      LET r == component_timeseries[n]
          earlier == {t \in TimesOf(r.component_id) : t < r.operating_datetime_utc}
      IN IF earlier = {}
         THEN r.ramp = Missing
         ELSE r.ramp = Known(ComponentLoad(r.component_id, r.operating_datetime_utc)
                               - ComponentLoad(r.component_id, SetMax(earlier)))

\* a sample that is not excluded follows an excluded one of its component,
\* and its ramp is the step between the two
C26_Witness ==
  /\ pc = "aggregated"
  /\ \E n \in 2..Len(component_timeseries) :
       LET r == component_timeseries[n]
           q == component_timeseries[n - 1]
       IN /\ q.component_id = r.component_id
          /\ q.exclude_ramp /\ ~r.exclude_ramp
          /\ r.ramp # Missing /\ r.ramp[1] # 0
          /\ r.ramp[1] = r.gross_load_mw - q.gross_load_mw

\* C28: for every component with defined extrema, idxmax_abs_ramp is a
\* timestamp of one of its non-excluded samples, and the absolute value of
\* the ramp at that timestamp equals max_abs_ramp, which no non-excluded
\* sample of the component exceeds in absolute value.
C28_IdxmaxAbsAttainsMaxAbs ==
  (pc = "aggregated" /\ component_aggs.ok) =>
    \A k \in 1..Len(component_aggs.rows) :
      LET r == component_aggs.rows[k]
          Q == Qualifying(r.component_id)
      IN (r.max_ramp # Missing /\ r.min_ramp # Missing) =>
           /\ \E n \in Q :
                /\ component_timeseries[n].operating_datetime_utc = r.idxmax_abs_ramp
                /\ Abs(component_timeseries[n].ramp[1]) = r.max_abs_ramp[1]
           /\ \A n \in Q : Abs(component_timeseries[n].ramp[1]) <= r.max_abs_ramp[1]

\* both extrema are negative and differ, so the largest absolute ramp is at
\* the minimum
C28_Witness ==
  /\ pc = "aggregated" /\ component_aggs.ok
  /\ \E k \in 1..Len(component_aggs.rows) :
       LET r == component_aggs.rows[k]
       IN /\ r.max_ramp # Missing /\ r.min_ramp # Missing
          /\ r.max_ramp[1] < 0 /\ r.min_ramp[1] < r.max_ramp[1]
          /\ r.idxmax_abs_ramp = r.idxmin_ramp
          /\ r.idxmax_abs_ramp # r.idxmax_ramp
          /\ r.max_abs_ramp[1] = Abs(r.min_ramp[1])

\* =========================================================================
\* further claims on the crosswalk graph
\* =========================================================================
NoMissingKeys ==
  \A i \in 1..Len(prepped) :
    ~KeyHasNA(CamdKey(prepped[i])) /\ ~KeyHasNA(EiaKey(prepped[i]))

\* the rows of the plant of row i that a chain of rows of that plant links
\* to the rows of S by shared unit or generator identifiers
RECURSIVE LinkedInPlant(_, _)
LinkedInPlant(i, S) ==
  LET same == {j \in 1..Len(prepped) :
                 prepped[j].CAMD_PLANT_ID = prepped[i].CAMD_PLANT_ID}
      next == S \cup {j \in same : \E k \in S :
                        \/ prepped[j].CAMD_UNIT_ID = prepped[k].CAMD_UNIT_ID
                        \/ prepped[j].EIA_GENERATOR_ID = prepped[k].EIA_GENERATOR_ID}
  IN IF next = S THEN S ELSE LinkedInPlant(i, next)

\* C29: for a crosswalk without missing key fields, rows of the same
\* component_id share their CAMD_PLANT_ID, and the rows that share a
\* component with a row are those its own plant's rows link to it: the rows
\* of other plants do not matter.
C29_ComponentWithinOnePlant ==
  (pc = "components" /\ NoMissingKeys) =>
    /\ result.ok
    /\ \A r, q \in result.rows :
         r.component_id = q.component_id => r.CAMD_PLANT_ID = q.CAMD_PLANT_ID
    /\ \A i, j \in 1..Len(prepped) :
         (ComponentOfRow(i) = ComponentOfRow(j)) <=> (j \in LinkedInPlant(i, {i}))

\* two plants use the same unit and generator identifiers, and their rows
\* are in different components
C29_Witness ==
  /\ pc = "components" /\ NoMissingKeys /\ result.ok
  /\ \E i, j \in 1..Len(prepped) :
       /\ prepped[i].CAMD_PLANT_ID # prepped[j].CAMD_PLANT_ID
       /\ prepped[i].CAMD_UNIT_ID = prepped[j].CAMD_UNIT_ID
       /\ prepped[i].EIA_GENERATOR_ID = prepped[j].EIA_GENERATOR_ID
       /\ ComponentOfRow(i) # ComponentOfRow(j)
  /\ \E i, j \in 1..Len(prepped) : i # j /\ ComponentOfRow(i) = ComponentOfRow(j)

\* =========================================================================
\* process_partition: _create_exclusion_flags
\* =========================================================================
\* grp.rolling(f"{radius * 2 + 1}h", centered=True, on="operating_datetime_utc")
\* ["zero_load"].sum().gt(0) at row i. Rolling has no argument "centered":
\* where the call is accepted the word is ignored and the window is the
\* default one, the 2 * radius + 1 hours that end at the row's timestamp.
rolling_zero_load(tbl, i, radius) ==
  \E j \in UnitRows(tbl, i) :
    /\ tbl[j].operating_datetime_utc <= tbl[i].operating_datetime_utc
    /\ tbl[j].operating_datetime_utc > tbl[i].operating_datetime_utc - (2 * radius + 1)
    /\ tbl[j].gross_load_mw = 0

\* _create_exclusion_flags(df): exclude_ramp starts False and is set, for
\* the rows of every technology with a radius >= 0, to the rolling flag
create_exclusion_flags(tbl) ==
  [i \in 1..Len(tbl) |->
     tbl[i] @@
       [exclude_ramp |->
          /\ tbl[i].simple_EIA_UNIT_TYPE \in DOMAIN EXCLUSION_SIZE_HOURS
          /\ EXCLUSION_SIZE_HOURS[tbl[i].simple_EIA_UNIT_TYPE] >= 0
          /\ rolling_zero_load(tbl, i, EXCLUSION_SIZE_HOURS[tbl[i].simple_EIA_UNIT_TYPE])]]

\* the outcome where Rolling rejects the unknown keyword (pandas from 1.3):
\* TypeError: __init__() got an unexpected keyword argument 'centered'
UnexpectedKeyword == [ok |-> FALSE, rows |-> <<>>]

\* ---------------------------------------------------------- specification
\* the same unit table goes through process_subset (cems) and through
\* process_partition (partition), which gets it with the component's label
InitPartition ==
  /\ pc = "start"
  /\ cems \in CemsTables
  /\ tech \in (DOMAIN EXCLUSION_SIZE_HOURS) \cup {"nan"}
  /\ partition = [ok |-> TRUE,
                  rows |-> [i \in 1..Len(cems) |->
                              cems[i] @@ [simple_EIA_UNIT_TYPE |-> tech]]]
  /\ year_range = <<0, 0>> /\ filtered = <<>>
  /\ ser = <<0>> /\ downtime = FALSE /\ events = NoEvents
  /\ xwalk = <<>> /\ prepped = <<>> /\ key_map = <<>> /\ result = NoResult
  /\ RampsIdle /\ ChunksIdle

\* process_partition, build_features.py line 514: _create_exclusion_flags(cems);
\* which of the two outcomes occurs depends on the pandas installed
CreateExclusionFlags ==
  /\ pc = "flagged"
  /\ \E accepted \in BOOLEAN :
       partition' = IF accepted
                    THEN [ok |-> TRUE, rows |-> create_exclusion_flags(partition.rows)]
                    ELSE UnexpectedKeyword
  /\ pc' = "partitioned"
  /\ UNCHANGED retireVars
  /\ UNCHANGED cemsVars
  /\ UNCHANGED uptimeVars
  /\ UNCHANGED xwalkVars
  /\ UNCHANGED rampVars
  /\ UNCHANGED chunkVars

NextPartition ==
  \/ FindEdges \/ DistanceFromDowntime \/ HoursDistance \/ FlagExclusions
  \/ CreateExclusionFlags

SpecPartition == InitPartition /\ [][NextPartition]_vars

\* ------------------------------------- claims on the two exclusion flags
\* C30: for every unit series and technology label, process_partition's
\* _create_exclusion_flags flags the samples that process_subset flags.
C30_SameExclusionFlags ==
  pc = "partitioned" =>
    /\ partition.ok
    /\ \A i \in 1..Len(cems) : partition.rows[i].exclude_ramp = cems[i].exclude_ramp

\* the flags differ on a table that both entry points processed
C30_FlagsDiffer ==
  /\ pc = "partitioned" /\ partition.ok
  /\ \E i \in 1..Len(cems) : partition.rows[i].exclude_ramp # cems[i].exclude_ramp

\* some zero-load sample of the unit lies within radius hours of row i, on
\* either side
ZeroWithinRadius(i, radius) ==
  \E j \in UnitRows(cems, i) :
    /\ Abs(cems[j].operating_datetime_utc - cems[i].operating_datetime_utc) <= radius
    /\ cems[j].gross_load_mw = 0

\* process_subset's flags differ from the two-sided window as well
C30_CenteredWindowDiffers ==
  /\ pc = "flagged" /\ tech = "steam_turbine"
  /\ \E i \in 1..Len(cems) :
       cems[i].exclude_ramp # ZeroWithinRadius(i, EXCLUSION_SIZE_HOURS[tech])

====
